---- MODULE Spec2Model ----
(***************************************************************************)
(* The offline cache manager (service worker) of SimpleCrew.               *)
(*                                                                         *)
(* Two versions of the worker are in the source: 'simple-finance-v10'      *)
(* (the worker being deployed) and 'simple-finance-v7' (the worker it      *)
(* replaces).  The model starts with v7 active and a v10 worker being      *)
(* installed, and follows install, activate and the fetch handlers of      *)
(* both.  Every promise the handlers leave pending is a step of its own:   *)
(* network fetches, caches.open, cache.put, caches.match, caches.keys,     *)
(* caches.delete and clients.claim land one at a time in any order.        *)
(*                                                                         *)
(* A URL path is the sequence of its segments: "/api/goals" is             *)
(* <<"api", "goals">> and "/" is <<"">>.                                   *)
(***************************************************************************)
EXTENDS Integers, Sequences, FiniteSets, TLC

\* Number of fetch events dispatched in one behaviour.
MaxEvents == 2

\* The installs of the v10 worker that are followed when the version is
\* installed again over its own store.
MaxInstalls == 2

\* The push events that are followed.
MaxPushes == 2

CACHE_NAME == "simple-finance-v10"

OLD_CACHE_NAME == "simple-finance-v7"

StoreNames == {OLD_CACHE_NAME, CACHE_NAME}

Manifest == <<"manifest.json">>

Icon192 == <<"static", "images", "192.png">>

Icon512 == <<"static", "images", "512.png">>

Root == <<"">>

CardsJs == <<"static", "js", "api", "cards.js">>

MainCss == <<"static", "css", "main.css">>

ApiGoals == <<"api", "goals">>

Logo == <<"static", "images", "logo.png">>

\* The pre-cache list of the v10 worker.
urlsToCache == <<Manifest, Icon192, Icon512>>

\* The entries of the v7 worker's pre-cache list among the modelled URLs.
oldUrlsToCache == <<Root, Manifest, MainCss, CardsJs>>

Req(path, mode, method) == [path |-> path, mode |-> mode, method |-> method]

\* The requests the page sends.
Requests ==
    { Req(ApiGoals, "cors", "GET"), Req(ApiGoals, "cors", "POST"),
      Req(ApiGoals, "cors", "HEAD"), Req(ApiGoals, "navigate", "GET"),
      Req(Root, "navigate", "GET"), Req(Root, "navigate", "POST"),
      Req(CardsJs, "no-cors", "GET"),
      Req(MainCss, "no-cors", "GET"), Req(Manifest, "cors", "GET"),
      Req(Logo, "no-cors", "GET") }

URLs == {r.path : r \in Requests} \cup {urlsToCache[i] : i \in 1..Len(urlsToCache)}

\* A response: where it came from ("fetch" by fetch event ev, or the install
\* of a version) and its status.
Response(src, e, status) == [src |-> src, ev |-> e, status |-> status]

\* An absent cache entry (what a lookup miss finds).
NoEntry == Response("none", 0, 0)

\* The statuses the server answers with.
NetStatuses == {200, 404}

\* String.prototype.startsWith on a pathname, for a prefix '/a/b/'.
StartsWith(path, prefix) ==
    /\ Len(path) > Len(prefix)
    /\ SubSeq(path, 1, Len(prefix)) = prefix

\* String.prototype.includes on a URL, for the needle '/api/'.
IncludesApi(path) == \E i \in 1..(Len(path) - 1) : path[i] = "api"

\* response.ok
Ok(status) == status >= 200 /\ status <= 299

\* Policy with the navigation test ahead of the '/api/' test.
PolicyNavigateFirst(req) ==
    IF \/ req.mode = "navigate"
       \/ StartsWith(req.path, <<"static", "js">>)
       \/ StartsWith(req.path, <<"static", "css">>)
    THEN "network-first"
    ELSE IF StartsWith(req.path, <<"api">>) THEN "network-only" ELSE "cache-first"

\* Policy without the test for '/static/css/'.
PolicyScriptsOnly(req) ==
    IF StartsWith(req.path, <<"api">>) THEN "network-only"
    ELSE IF req.mode = "navigate" \/ StartsWith(req.path, <<"static", "js">>)
         THEN "network-first"
         ELSE "cache-first"

\* The three policies of the v10 fetch handler, in the order of its tests.
Policy(req) ==
    IF StartsWith(req.path, <<"api">>) THEN "network-only"
    ELSE IF \/ req.mode = "navigate"
            \/ StartsWith(req.path, <<"static", "js">>)
            \/ StartsWith(req.path, <<"static", "css">>)
         THEN "network-first"
         ELSE "cache-first"

\* The two policies of the v7 fetch handler.
OldPolicy(req) ==
    IF IncludesApi(req.path) THEN "network-first" ELSE "cache-first"

\* What the page gets for a fetch event.  kind is "pending" until the promise
\* given to respondWith settles; "undefined" is a promise fulfilled with no
\* Response and "rejected" a rejected one (the page's fetch rejects on both).
Answer(kind, resp, store, ctype, body) ==
    [kind |-> kind, resp |-> resp, store |-> store, ctype |-> ctype, body |-> body]

Pending == Answer("pending", NoEntry, "none", "none", <<>>)

Undefined == Answer("undefined", NoEntry, "none", "none", <<>>)

Rejected == Answer("rejected", NoEntry, "none", "none", <<>>)

NetworkAnswer(resp) == Answer("network", resp, "none", "server", <<>>)

CacheAnswer(resp, store) == Answer("cache", resp, store, "server", <<>>)

\* new Response(JSON.stringify({ error: 'Offline' }), { status: 503, ... })
OfflineResponse ==
    Answer("synth", Response("worker", 0, 503), "none", "application/json",
           << <<"error", "Offline">> >>)

\* new Response(JSON.stringify({error: 'Network error'}), {status: 503, ...})
OldErrorResponse ==
    Answer("synth", Response("worker", 0, 503), "none", "application/json",
           << <<"error", "Network error">> >>)

NoReq == Req(<<>>, "none", "none")

IdleEvent ==
    [worker |-> "none", req |-> NoReq, pc |-> "idle", ans |-> Pending,
     net |-> "none", wpc |-> "none", wname |-> "none", netCalls |-> 0,
     responds |-> 0]

Events == 1..MaxEvents

\* The open pages in the scope of the worker: one loaded under the v7 worker
\* and one loaded past it (a forced reload), which no worker controls.
Clients == {"tab1", "tab2"}

----
\* push: values, JSON texts and the notification the handler builds

\* A string is the sequence of its words; a JSON text is a string whose
\* words are the tokens of JSON and the words between them.
Quote == "\""

JsUndefined == [t |-> "undefined", s |-> <<>>, members |-> <<>>]

JsNull == [t |-> "null", s |-> <<>>, members |-> <<>>]

JsString(s) == [t |-> "string", s |-> s, members |-> <<>>]

\* An object: its members <<key, value>>, in the order they were set.
JsObject(members) == [t |-> "object", s |-> <<>>, members |-> members]

\* The text of a JSON string, of a member and of an object of the given
\* member texts.
JsonString(s) == <<Quote>> \o s \o <<Quote>>

JsonMember(key, text) == JsonString(key) \o <<":">> \o text

RECURSIVE JsonMembers(_)
JsonMembers(texts) ==
    IF texts = <<>> THEN <<>>
    ELSE IF Len(texts) = 1 THEN texts[1]
    ELSE texts[1] \o <<",">> \o JsonMembers(Tail(texts))

JsonObject(texts) == <<"{">> \o JsonMembers(texts) \o <<"}">>

\* The result of a parsing step: the value read and the tokens left, or a
\* SyntaxError.
Parsed(value, rest) == [ok |-> TRUE, value |-> value, rest |-> rest]

SyntaxError == [ok |-> FALSE, value |-> JsUndefined, rest |-> <<>>]

\* The words up to the closing quote of a JSON string.
RECURSIVE ScanString(_, _)
ScanString(toks, acc) ==
    IF toks = <<>> THEN SyntaxError
    ELSE IF Head(toks) = Quote THEN Parsed(JsString(acc), Tail(toks))
    ELSE ScanString(Tail(toks), Append(acc, Head(toks)))

RECURSIVE ParseValue(_)
RECURSIVE ParseMembers(_, _)

\* The members of a JSON object after its opening brace or a comma.
ParseMembers(toks, acc) ==
    IF toks = <<>> \/ Head(toks) # Quote THEN SyntaxError
    ELSE LET k == ScanString(Tail(toks), <<>>)
         IN IF ~k.ok \/ k.rest = <<>> \/ Head(k.rest) # ":" THEN SyntaxError
            ELSE LET v == ParseValue(Tail(k.rest))
                 IN IF ~v.ok \/ v.rest = <<>> THEN SyntaxError
                    ELSE IF Head(v.rest) = ","
                         THEN ParseMembers(Tail(v.rest),
                                           Append(acc, <<k.value.s, v.value>>))
                    ELSE IF Head(v.rest) = "}"
                         THEN Parsed(JsObject(Append(acc, <<k.value.s, v.value>>)),
                                     Tail(v.rest))
                    ELSE SyntaxError

\* A JSON value at the head of the tokens: null, a string or an object.
ParseValue(toks) ==
    IF toks = <<>> THEN SyntaxError
    ELSE IF Head(toks) = "null" THEN Parsed(JsNull, Tail(toks))
    ELSE IF Head(toks) = Quote THEN ScanString(Tail(toks), <<>>)
    ELSE IF Head(toks) = "{"
         THEN IF Len(toks) >= 2 /\ toks[2] = "}"
              THEN Parsed(JsObject(<<>>), SubSeq(toks, 3, Len(toks)))
              ELSE ParseMembers(Tail(toks), <<>>)
    ELSE SyntaxError

\* event.data.json(): JSON.parse of the text of the payload.
JsonParse(text) ==
    LET r == ParseValue(text)
    IN IF r.ok /\ r.rest = <<>> THEN r ELSE SyntaxError

\* The positions of the members of an object that have the key.
MembersAt(v, key) == {k \in 1..Len(v.members) : v.members[k][1] = key}

Last(S) == CHOOSE i \in S : \A j \in S : j <= i

\* v.key reads a property: of null and of undefined it throws a TypeError.
Throws(v) == v.t \in {"null", "undefined"}

\* v.key where it does not throw: the member of an object, undefined for a
\* key the value does not have.
Get(v, key) ==
    IF v.t = "object" /\ MembersAt(v, key) # {}
    THEN v.members[Last(MembersAt(v, key))][2]
    ELSE JsUndefined

\* v?.key
OptGet(v, key) == IF Throws(v) THEN JsUndefined ELSE Get(v, key)

\* The values that count as true in a || b.
Truthy(v) == v.t = "object" \/ (v.t = "string" /\ v.s # <<>>)

\* a || b
OrElse(a, b) == IF Truthy(a) THEN a ELSE b

Badge == <<"static", "images", "badge.png">>

\* notificationData as the push handler initialises it.
DefaultNotificationData ==
    [title |-> JsString(<<"SimpleCrew">>),
     body |-> JsString(<<"New", "notification">>),
     icon |-> Icon192, badge |-> Badge]

\* event.data of a push event: null, or a payload with its text.
NoData == [present |-> FALSE, text |-> <<>>]

Data(text) == [present |-> TRUE, text |-> text]

\* NotificationData of a handler that has no catch for a payload it cannot
\* read: the defaults stay.
NotificationDataNoFallback(data) ==
    IF ~data.present \/ ~JsonParse(data.text).ok \/ Throws(JsonParse(data.text).value)
    THEN DefaultNotificationData
    ELSE [DefaultNotificationData EXCEPT
            !.title = OrElse(OptGet(Get(JsonParse(data.text).value,
                                        <<"notification">>), <<"title">>), @),
            !.body = OrElse(OptGet(Get(JsonParse(data.text).value,
                                       <<"notification">>), <<"body">>), @)]

\* NotificationData of a handler that takes the fields of the payload
\* without their defaults.
NotificationDataNoDefaults(data) ==
    IF ~data.present THEN DefaultNotificationData
    ELSE IF ~JsonParse(data.text).ok \/ Throws(JsonParse(data.text).value)
    THEN [DefaultNotificationData EXCEPT !.body = JsString(data.text)]
    ELSE [DefaultNotificationData EXCEPT
            !.title = OptGet(Get(JsonParse(data.text).value,
                                 <<"notification">>), <<"title">>),
            !.body = OptGet(Get(JsonParse(data.text).value,
                                <<"notification">>), <<"body">>)]

\* notificationData when the push handler calls showNotification: the
\* defaults without a payload; with one, the title and the body of
\* payload.notification where they count as true; and when json() throws, or
\* reading payload.notification does (the payload is null), the text of the
\* payload as the body.
NotificationData(data) ==
    IF ~data.present THEN DefaultNotificationData
    ELSE IF ~JsonParse(data.text).ok \/ Throws(JsonParse(data.text).value)
    THEN [DefaultNotificationData EXCEPT !.body = JsString(data.text)]
    ELSE [DefaultNotificationData EXCEPT
            !.title = OrElse(OptGet(Get(JsonParse(data.text).value,
                                        <<"notification">>), <<"title">>), @),
            !.body = OrElse(OptGet(Get(JsonParse(data.text).value,
                                       <<"notification">>), <<"body">>), @)]

\* A field of the notification object of a payload: absent, or a string.
NoField == [present |-> FALSE, s |-> <<>>]

Field(s) == [present |-> TRUE, s |-> s]

MemberTexts(key, f) ==
    IF f.present THEN << JsonMember(key, JsonString(f.s)) >> ELSE <<>>

\* The text {"notification":{"title":...,"body":...}} with the fields given.
NotificationPayload(title, body) ==
    JsonObject(<< JsonMember(<<"notification">>,
                             JsonObject(MemberTexts(<<"title">>, title)
                                        \o MemberTexts(<<"body">>, body))) >>)

Titles == {NoField, Field(<<>>), Field(<<"X">>)}

Bodies == {NoField, Field(<<>>), Field(<<"Y">>)}

\* JSON texts without a notification object: {}, {"notification":null}, null.
BareJsonTexts ==
    { JsonObject(<<>>),
      JsonObject(<< JsonMember(<<"notification">>, <<"null">>) >>),
      <<"null">> }

\* Texts that are not JSON: plain text, a bare word, a text cut short.
NonJsonTexts ==
    { <<"plain", "text">>, <<"X">>, <<"{", Quote, "notification", Quote, ":">> }

\* The payloads the push service delivers.
PushData ==
    {NoData}
        \cup {Data(NotificationPayload(t, b)) : t \in Titles, b \in Bodies}
        \cup {Data(x) : x \in BareJsonTexts \cup NonJsonTexts}

Pushes == 1..MaxPushes

IdlePush == [pc |-> "idle", data |-> NoData]

\* self.location.origin
Origin == "origin"

\* A window client of the origin (clients.matchAll returns no other).
Window(id, path) == [id |-> id, type |-> "window", origin |-> Origin, path |-> path]

\* The windows open when the notifications arrive: none, one, or two.
WindowLists ==
    { <<>>, << Window("tab1", Root) >>,
      << Window("tab2", Root), Window("tab1", Root) >> }

\* ShowCall of a handler that gives its notifications no tag.
ShowCallUntagged(p, nd) ==
    [ev |-> p, title |-> nd.title, body |-> nd.body, icon |-> nd.icon,
     badge |-> nd.badge, tag |-> "", requireInteraction |-> FALSE,
     vibrate |-> <<200, 100, 200>>]

\* The call registration.showNotification(title, options) of push event p.
ShowCall(p, nd) ==
    [ev |-> p, title |-> nd.title, body |-> nd.body, icon |-> nd.icon,
     badge |-> nd.badge, tag |-> "simplecrew-sync", requireInteraction |-> FALSE,
     vibrate |-> <<200, 100, 200>>]

VARIABLES
    cacheNames,   \* the names of the cache stores, in the order of their creation
    store,        \* store[name][url]: the snapshot held, or NoEntry
    oldState,     \* the v7 worker: "activated" or "redundant"
    newState,     \* the v10 worker: "installing", "installed", "activating",
                  \* "activated" or "redundant"
    instPc,       \* install: "opening", "adding", "done" or "failed"
    addState,     \* addState[i]: cache.add(urlsToCache[i]) is "pending", "added" or "failed"
    skipWaiting,  \* self.skipWaiting() was called
    keysPc,       \* activate: caches.keys() is "idle", "pending" or "done"
    delPc,        \* delPc[name]: caches.delete(name) is "none", "pending", "done" or "failed"
    claimPc,      \* activate: clients.claim() is "idle", "pending" or "done"
    actResult,    \* the promise given to waitUntil in activate: "idle", "pending",
                  \* "fulfilled" or "rejected"
    controller,   \* controller[c]: the worker that controls page c: "old", "new"
                  \* or "none"
    ev,           \* ev[e]: the fetch event e
    recent,       \* recent[url]: the stores that hold a snapshot for the URL, the
                  \* one written last first
    installNo,    \* repeated installs of v10: the number of the install that runs
    addPc,        \* repeated installs: addPc[i], cache.add(urlsToCache[i]) of the
                  \* install that runs is "pending", "added" or "failed"
    entries,      \* repeated installs: the request/response list of the store
                  \* named CACHE_NAME, in the order the Cache keeps it
    putCount,     \* repeated installs: putCount[url], the writes made for the URL
    push,         \* push[p]: the push event p
    shown,        \* the calls of registration.showNotification, in their order
    displayed,    \* the notifications on display
    windows,      \* the URLs of the open window clients of the origin, the one
                  \* focused last first
    canOpenWindow,\* clients.openWindow is defined in this browser
    clickPc,      \* notificationclick: "idle", "matching" or "done"
    clickLog,     \* notificationclick: the calls the handler made, in their order
    transactionRefreshInterval,
                  \* state.js: the handle of the auto-refresh timer, or Null
    intervals,    \* the handles of the interval timers that are live
    intervalsIssued,
                  \* the number of handles setInterval has returned
    activeView,   \* the tab whose view section has the class 'active', or "none"
    lastTab,      \* the argument of the last call of switchTab, or "none"
    lastCall,     \* the function of the last call made from outside: "switchTab",
                  \* "startTransactionAutoRefresh", "stopTransactionAutoRefresh"
                  \* or "none"
    lastStep,     \* the last handler or timer callback that ran, and the functions
                  \* it called
    draggedItem,  \* groups.js: the pocket being dragged, or "null"
    touchStartY,  \* groups.js: clientY of the last touchstart
    touchStartX,  \* groups.js: clientX of the last touchstart
    isDragging,   \* groups.js: drag mode is on
    longPressTimer,
                  \* groups.js: the handle of the long-press timer, or Null
    timeouts,     \* the setTimeout timers that are pending
    timeoutsIssued,
                  \* the number of handles setTimeout has returned
    isDraggingClass,
                  \* the pockets whose element has the class 'is-dragging'
    dragModeActive,
                  \* document.body has the class 'drag-mode-active'
    dragActive,   \* the list has the class 'drag-active'
    goalsList,    \* the pockets of #goals-list, in the order of the page
    serverOrder,  \* the order of the pockets the server has stored
    saves,        \* the calls of savePocketOrder, in their order
    touches,      \* the number of fingers on the screen
    mouse,        \* the mouse drag: "idle", "dragging" or "dropped"
    lastInput     \* the last touch or drag event delivered, or "none"

precacheVars == <<installNo, addPc, entries, putCount>>

pushVars == <<push, shown, displayed, windows, canOpenWindow, clickPc, clickLog>>

refreshVars == <<transactionRefreshInterval, intervals, intervalsIssued, activeView,
                 lastTab, lastCall, lastStep>>

dragVars == <<draggedItem, touchStartY, touchStartX, isDragging, longPressTimer,
              timeouts, timeoutsIssued, isDraggingClass, dragModeActive, dragActive,
              goalsList, serverOrder, saves, touches, mouse, lastInput>>

\* The state of the page.
pageVars == <<refreshVars, dragVars>>

\* What the install, activate and fetch handlers leave alone.
elsewhere == <<precacheVars, pushVars, pageVars>>

workerVars == <<cacheNames, store, oldState, newState, instPc, addState, skipWaiting,
                keysPc, delPc, claimPc, actResult, controller, ev, recent>>

vars == <<workerVars, elsewhere>>

lifecycle == <<oldState, newState, instPc, addState, skipWaiting,
               keysPc, delPc, claimPc, actResult, controller>>

EmptyStore == [u \in URLs |-> NoEntry]

Range(seq) == {seq[i] : i \in 1..Len(seq)}

\* caches.open(name): the store is created when no store has the name.
Opened(names, name) == IF name \in Range(names) THEN names ELSE Append(names, name)

\* caches.delete(name): the name is removed from the list of stores.
Deleted(names, name) == SelectSeq(names, LAMBDA n : n # name)

\* cache.put in the store named name, for the URL: the store now holds the
\* snapshot of the URL that was written last.
Written(rec, name, url) == [rec EXCEPT ![url] = <<name>> \o Deleted(@, name)]

\* The store the v7 worker holds after its own install and activation.
OldInstalledStore ==
    [u \in URLs |-> IF u \in Range(oldUrlsToCache)
                    THEN Response("install-v7", 0, 200) ELSE NoEntry]

\* Before the first install of v10: its store, not created yet, has no entry.
PrecacheInit ==
    /\ installNo = 1
    /\ addPc = [i \in 1..Len(urlsToCache) |-> "pending"]
    /\ entries = <<>>
    /\ putCount = [u \in Range(urlsToCache) |-> 0]

\* No push event yet, with the given windows open.
PushStart(wins, canOpen) ==
    /\ push = [p \in Pushes |-> IdlePush]
    /\ shown = <<>>
    /\ displayed = <<>>
    /\ windows = wins
    /\ canOpenWindow = canOpen
    /\ clickPc = "idle"
    /\ clickLog = <<>>

PushQuiet == PushStart(<<>>, TRUE)

PushInit == \E wins \in WindowLists, canOpen \in BOOLEAN : PushStart(wins, canOpen)

WorkerInit ==
    /\ cacheNames = <<OLD_CACHE_NAME>>
    /\ store = [n \in StoreNames |->
                   IF n = OLD_CACHE_NAME THEN OldInstalledStore ELSE EmptyStore]
    /\ oldState = "activated"
    /\ newState = "installing"
    /\ instPc = "opening"
    /\ addState = [i \in 1..Len(urlsToCache) |-> "pending"]
    /\ skipWaiting = FALSE
    /\ keysPc = "idle"
    /\ delPc = [n \in StoreNames |-> "none"]
    /\ claimPc = "idle"
    /\ actResult = "idle"
    /\ controller = [c \in Clients |-> IF c = "tab1" THEN "old" ELSE "none"]
    /\ ev = [e \in Events |-> IdleEvent]
    /\ recent = [u \in URLs |-> IF u \in Range(oldUrlsToCache)
                                THEN <<OLD_CACHE_NAME>> ELSE <<>>]

\* null.  Like null the handle 0 is falsy; setInterval and setTimeout return
\* handles greater than 0.
Null == 0

\* The page loaded, with the view of the given tab, or none, marked active
\* by the markup, before any tab was switched to.
RefreshStart(view) ==
    /\ transactionRefreshInterval = Null
    /\ intervals = {}
    /\ intervalsIssued = 0
    /\ activeView = view
    /\ lastTab = "none"
    /\ lastCall = "none"
    /\ lastStep = [by |-> "none", calls |-> {}]

RefreshInit == \E view \in {"none", "activity"} : RefreshStart(view)

\* The pockets rendered in the order the server has stored, no drag begun.
DragStart(order) ==
    /\ draggedItem = "null"
    /\ touchStartY = 0
    /\ touchStartX = 0
    /\ isDragging = FALSE
    /\ longPressTimer = Null
    /\ timeouts = {}
    /\ timeoutsIssued = 0
    /\ isDraggingClass = {}
    /\ dragModeActive = FALSE
    /\ dragActive = FALSE
    /\ goalsList = order
    /\ serverOrder = order
    /\ saves = <<>>
    /\ touches = 0
    /\ mouse = "idle"
    /\ lastInput = "none"

\* The page left alone.
PageQuiet == RefreshStart("none") /\ DragStart(<<"p1", "p2">>)

Init == WorkerInit /\ PrecacheInit /\ PushQuiet /\ PageQuiet

----
\* install (v10)

\* caches.open(CACHE_NAME) settles.  When it fails the promise given to
\* waitUntil rejects and the worker is discarded.
InstallOpenLand(ok) ==
    /\ newState = "installing" /\ instPc = "opening"
    /\ IF ok
       THEN /\ cacheNames' = Opened(cacheNames, CACHE_NAME)
            /\ instPc' = "adding"
            /\ newState' = newState
       ELSE /\ cacheNames' = cacheNames
            /\ instPc' = "failed"
            /\ newState' = "redundant"
    /\ UNCHANGED elsewhere
    /\ UNCHANGED <<store, oldState, addState, skipWaiting, keysPc, delPc,
                   claimPc, actResult, controller, ev, recent>>

\* AddResult of an add that stores whatever it got.
AddResultAlways(status) == "added"

\* cache.add(url): fetch the URL, reject unless the response is ok, put it.
AddResult(status) == IF Ok(status) THEN "added" ELSE "failed"

\* InstallAddSettle of an install that fails fast: a rejected add is not
\* caught and rejects the promise given to waitUntil.
InstallAddSettleFailFast(i, status) ==
    /\ newState = "installing" /\ instPc = "adding"
    /\ addState[i] = "pending"
    /\ addState' = [addState EXCEPT ![i] = AddResult(status)]
    /\ store' = IF AddResult(status) = "added" /\ CACHE_NAME \in Range(cacheNames)
                THEN [store EXCEPT ![CACHE_NAME][urlsToCache[i]] =
                                       Response("install-v10", 0, status)]
                ELSE store
    /\ recent' = IF AddResult(status) = "added" /\ CACHE_NAME \in Range(cacheNames)
                 THEN Written(recent, CACHE_NAME, urlsToCache[i])
                 ELSE recent
    /\ instPc' = IF AddResult(status) = "failed" THEN "failed" ELSE instPc
    /\ newState' = IF AddResult(status) = "failed" THEN "redundant" ELSE newState
    /\ UNCHANGED elsewhere
    /\ UNCHANGED <<cacheNames, oldState, skipWaiting, keysPc,
                   delPc, claimPc, actResult, controller, ev>>

\* cache.add(urlsToCache[i]) settles: status 0 is a fetch that failed.  A
\* rejection is caught and logged.
InstallAddSettle(i, status) ==
    /\ newState = "installing" /\ instPc = "adding"
    /\ addState[i] = "pending"
    /\ addState' = [addState EXCEPT ![i] = AddResult(status)]
    /\ store' = IF AddResult(status) = "added" /\ CACHE_NAME \in Range(cacheNames)
                THEN [store EXCEPT ![CACHE_NAME][urlsToCache[i]] =
                                       Response("install-v10", 0, status)]
                ELSE store
    /\ recent' = IF AddResult(status) = "added" /\ CACHE_NAME \in Range(cacheNames)
                 THEN Written(recent, CACHE_NAME, urlsToCache[i])
                 ELSE recent
    /\ UNCHANGED elsewhere
    /\ UNCHANGED <<cacheNames, oldState, newState, instPc, skipWaiting, keysPc,
                   delPc, claimPc, actResult, controller, ev>>

\* InstallSettled of an install that calls self.skipWaiting() without
\* waiting for the adds.
InstallSettledEarly ==
    /\ newState = "installing" /\ instPc = "adding"
    /\ instPc' = "done"
    /\ skipWaiting' = TRUE
    /\ newState' = "installed"
    /\ UNCHANGED elsewhere
    /\ UNCHANGED <<cacheNames, store, oldState, addState, keysPc, delPc,
                   claimPc, actResult, controller, ev, recent>>

\* Promise.allSettled resolves once every add has settled; then
\* self.skipWaiting() is called and the promise given to waitUntil fulfils.
InstallSettled ==
    /\ newState = "installing" /\ instPc = "adding"
    /\ \A i \in 1..Len(urlsToCache) : addState[i] # "pending"
    /\ instPc' = "done"
    /\ skipWaiting' = TRUE
    /\ newState' = "installed"
    /\ UNCHANGED elsewhere
    /\ UNCHANGED <<cacheNames, store, oldState, addState, keysPc, delPc,
                   claimPc, actResult, controller, ev, recent>>

----
\* activate (v10)

\* The controllers once the browser made the waiting worker the active one:
\* the pages the previous worker controlled are handed over.
HandedOver(ctl) == [c \in Clients |-> IF ctl[c] = "old" THEN "new" ELSE ctl[c]]

\* The browser activates the waiting worker once skipWaiting was called and
\* no fetch event of the active worker is still waiting for its answer.  The
\* v7 worker becomes redundant; what it left pending may still land.
ActivateStart ==
    /\ newState = "installed" /\ skipWaiting
    /\ \A e \in Events : ev[e].pc \in {"idle", "done"}
    /\ newState' = "activating"
    /\ oldState' = "redundant"
    /\ keysPc' = "pending"
    /\ claimPc' = "pending"
    /\ actResult' = "pending"
    /\ controller' = HandedOver(controller)
    /\ UNCHANGED elsewhere
    /\ UNCHANGED <<cacheNames, store, instPc, addState, skipWaiting, delPc, ev,
                   recent>>

\* The names the activate handler deletes.
Stale(names) == {n \in names : n # CACHE_NAME}

\* caches.keys() resolves: caches.delete is called for every stale name.
KeysLand ==
    /\ keysPc = "pending"
    /\ keysPc' = "done"
    /\ delPc' = [n \in StoreNames |->
                    IF n \in Stale(Range(cacheNames)) THEN "pending" ELSE delPc[n]]
    /\ UNCHANGED elsewhere
    /\ UNCHANGED <<cacheNames, store, oldState, newState, instPc, addState,
                   skipWaiting, claimPc, actResult, controller, ev, recent>>

\* A cache.put in flight on a store that is deleted lands in a cache that no
\* name refers to any more.
Detach(e, name) ==
    IF ev[e].wpc = "putting" /\ ev[e].wname = name
    THEN [ev[e] EXCEPT !.wpc = "orphan"] ELSE ev[e]

\* caches.delete(name) settles: the store is removed, or the deletion fails
\* and its promise rejects.
DeleteLand(name, ok) ==
    /\ delPc[name] = "pending"
    /\ IF ok
       THEN /\ delPc' = [delPc EXCEPT ![name] = "done"]
            /\ cacheNames' = Deleted(cacheNames, name)
            /\ store' = [store EXCEPT ![name] = EmptyStore]
            /\ ev' = [e \in Events |-> Detach(e, name)]
            /\ recent' = [u \in URLs |-> Deleted(recent[u], name)]
       ELSE /\ delPc' = [delPc EXCEPT ![name] = "failed"]
            /\ UNCHANGED <<cacheNames, store, ev, recent>>
    /\ UNCHANGED elsewhere
    /\ UNCHANGED <<oldState, newState, instPc, addState, skipWaiting, keysPc,
                   claimPc, actResult, controller>>

\* The controllers after clients.claim(): every page in the scope is
\* controlled by the worker that called it.
Claimed(ctl) == [c \in Clients |-> "new"]

\* clients.claim() resolves.
ClaimLand ==
    /\ claimPc = "pending"
    /\ claimPc' = "done"
    /\ controller' = Claimed(controller)
    /\ UNCHANGED elsewhere
    /\ UNCHANGED <<cacheNames, store, oldState, newState, instPc, addState,
                   skipWaiting, keysPc, delPc, actResult, ev, recent>>

\* AllFulfilled of a handler that catches the rejection of caches.delete.
AllFulfilledSwallowing ==
    /\ keysPc = "done"
    /\ \A n \in StoreNames : delPc[n] \in {"none", "done", "failed"}
    /\ claimPc = "done"

\* Promise.all fulfils when every promise given to it has fulfilled.
AllFulfilled ==
    /\ keysPc = "done"
    /\ \A n \in StoreNames : delPc[n] \in {"none", "done"}
    /\ claimPc = "done"

\* Promise.all rejects as soon as one promise given to it rejects.
AnyRejected == \E n \in StoreNames : delPc[n] = "failed"

\* The promise given to waitUntil settles; the worker is activated either way.
ActivateSettle ==
    /\ newState = "activating" /\ actResult = "pending"
    /\ \/ AllFulfilled /\ actResult' = "fulfilled"
       \/ AnyRejected /\ actResult' = "rejected"
    /\ newState' = "activated"
    /\ UNCHANGED elsewhere
    /\ UNCHANGED <<cacheNames, store, oldState, instPc, addState, skipWaiting,
                   keysPc, delPc, claimPc, controller, ev, recent>>

----
\* fetch (v10 and v7)

\* Events are dispatched in the order of their numbers.
Dispatchable(e) ==
    /\ ev[e].pc = "idle"
    /\ \A d \in Events : d < e => ev[d].pc # "idle"

\* The policy the worker that handles event e applies to it.
PolicyOf(e) == IF ev[e].worker = "new" THEN Policy(ev[e].req) ELSE OldPolicy(ev[e].req)

\* The fetch handler of v10 up to its return: respondWith is called once, with
\* a promise that starts with a network fetch or with a cache lookup.
Handle(worker, req, policy) ==
    [worker |-> worker, req |-> req,
     pc |-> IF policy = "cache-first" THEN "match" ELSE "net",
     ans |-> Pending, net |-> "none", wpc |-> "none", wname |-> "none",
     netCalls |-> IF policy = "cache-first" THEN 0 ELSE 1,
     responds |-> 1]

\* A fetch event of a page the v10 worker controls reaches it.
FetchEvent(e, req) ==
    /\ newState = "activated"
    /\ \E c \in Clients : controller[c] = "new"
    /\ Dispatchable(e)
    /\ ev' = [ev EXCEPT ![e] = Handle("new", req, Policy(req))]
    /\ UNCHANGED elsewhere
    /\ UNCHANGED <<cacheNames, store, lifecycle, recent>>

\* A fetch event of a page the v7 worker controls reaches it.
OldFetchEvent(e, req) ==
    /\ oldState = "activated"
    /\ \E c \in Clients : controller[c] = "old"
    /\ Dispatchable(e)
    /\ ev' = [ev EXCEPT ![e] = Handle("old", req, OldPolicy(req))]
    /\ UNCHANGED elsewhere
    /\ UNCHANGED <<cacheNames, store, lifecycle, recent>>

\* How fetch(event.request) settled: status 0 stands for a rejection.
NetResult(status) == IF status = 0 THEN "failed" ELSE "answered"

\* The response of the network to the fetch of event e.
Live(e, status) == Response("fetch", e, status)

\* ApiCatch without the substitute.
ApiCatchNothing(req) == Undefined

\* ApiCatch without the test of the method.
ApiCatchAlways(req) == OfflineResponse

\* The catch of the API branch: a substitute for GET, nothing otherwise.
ApiCatch(req) == IF req.method = "GET" THEN OfflineResponse ELSE Undefined

\* API branch of v10: fetch(event.request) settles (status 0: it failed).
ApiSettle(e, status) ==
    /\ ev[e].pc = "net" /\ ev[e].worker = "new" /\ PolicyOf(e) = "network-only"
    /\ ev' = [ev EXCEPT ![e].pc = "done",
                        ![e].net = NetResult(status),
                        ![e].ans = IF status = 0 THEN ApiCatch(ev[e].req)
                                   ELSE NetworkAnswer(Live(e, status))]
    /\ UNCHANGED elsewhere
    /\ UNCHANGED <<cacheNames, store, lifecycle, recent>>

\* ShouldCache of a handler that never caches.
ShouldCacheNever(req, status) == FALSE

\* ShouldCache of a handler that caches every response.
ShouldCacheAlways(req, status) == TRUE

\* The test that guards the cache write of the network-first branch.
ShouldCache(req, status) == Ok(status)

\* NetworkFirstSettle of a handler that returns the response only after the
\* cache write: the answer stays pending while the write runs.
NetworkFirstSettleAwaiting(e, status) ==
    /\ ev[e].pc = "net" /\ ev[e].worker = "new" /\ PolicyOf(e) = "network-first"
    /\ ev' = IF status = 0
             THEN [ev EXCEPT ![e].pc = "match", ![e].net = "failed"]
             ELSE [ev EXCEPT ![e].pc = IF Ok(status) THEN "writing" ELSE "done",
                             ![e].net = "answered",
                             ![e].ans = IF Ok(status) THEN Pending
                                        ELSE NetworkAnswer(Live(e, status)),
                             ![e].wpc = IF Ok(status) THEN "opening" ELSE "none",
                             ![e].wname = IF Ok(status) THEN CACHE_NAME ELSE "none"]
    /\ UNCHANGED elsewhere
    /\ UNCHANGED <<cacheNames, store, lifecycle, recent>>

\* Network-first branch of v10: fetch(event.request) settles.  An ok response
\* is cloned and caches.open(CACHE_NAME) is started without being awaited; a
\* failure starts caches.match.
NetworkFirstSettle(e, status) ==
    /\ ev[e].pc = "net" /\ ev[e].worker = "new" /\ PolicyOf(e) = "network-first"
    /\ ev' = IF status = 0
             THEN [ev EXCEPT ![e].pc = "match", ![e].net = "failed"]
             ELSE [ev EXCEPT ![e].pc = "done",
                             ![e].net = "answered",
                             ![e].ans = NetworkAnswer(Live(e, status)),
                             ![e].wpc = IF ShouldCache(ev[e].req, status)
                                        THEN "opening" ELSE "none",
                             ![e].wname = IF ShouldCache(ev[e].req, status)
                                          THEN CACHE_NAME ELSE "none"]
    /\ UNCHANGED elsewhere
    /\ UNCHANGED <<cacheNames, store, lifecycle, recent>>

\* The test that guards the cache write of the API branch of v7.
OldShouldCache(req, status) == req.method = "GET" /\ status = 200

\* API branch of v7: fetch(event.request) settles.
OldApiSettle(e, status) ==
    /\ ev[e].pc = "net" /\ ev[e].worker = "old" /\ PolicyOf(e) = "network-first"
    /\ ev' = IF status = 0
             THEN IF ev[e].req.method = "GET"
                  THEN [ev EXCEPT ![e].pc = "match", ![e].net = "failed"]
                  ELSE [ev EXCEPT ![e].pc = "done", ![e].net = "failed",
                                  ![e].ans = OldErrorResponse]
             ELSE [ev EXCEPT ![e].pc = "done",
                             ![e].net = "answered",
                             ![e].ans = NetworkAnswer(Live(e, status)),
                             ![e].wpc = IF OldShouldCache(ev[e].req, status)
                                        THEN "opening" ELSE "none",
                             ![e].wname = IF OldShouldCache(ev[e].req, status)
                                          THEN OLD_CACHE_NAME ELSE "none"]
    /\ UNCHANGED elsewhere
    /\ UNCHANGED <<cacheNames, store, lifecycle, recent>>

\* The positions, in the order of creation, of the stores that hold a
\* snapshot for the URL.
Holders(names, st, path) == {i \in 1..Len(names) : st[names[i]][path] # NoEntry}

First(S) == CHOOSE i \in S : \A j \in S : i <= j

\* Match of a lookup that finds nothing.
MatchNothing(names, st, req) == Undefined

\* caches.match(request): the stores are searched in the order of their
\* creation and the first snapshot found is the result; a request that is not
\* a GET matches nothing.
Match(names, st, req) ==
    IF req.method # "GET" \/ Holders(names, st, req.path) = {}
    THEN Undefined
    ELSE CacheAnswer(st[names[First(Holders(names, st, req.path))]][req.path],
                     names[First(Holders(names, st, req.path))])

\* The fallback of a network-first branch: caches.match(event.request)
\* resolves and its result, a snapshot or undefined, is the answer.
FallbackLand(e) ==
    /\ ev[e].pc = "match" /\ PolicyOf(e) = "network-first"
    /\ ev' = [ev EXCEPT ![e].pc = "done",
                        ![e].ans = Match(cacheNames, store, ev[e].req)]
    /\ UNCHANGED elsewhere
    /\ UNCHANGED <<cacheNames, store, lifecycle, recent>>

\* LookupLand of a handler that starts no fetch after a miss: the promise
\* given to respondWith is then one that nothing resolves.
LookupLandNoFetch(e) ==
    /\ ev[e].pc = "match" /\ PolicyOf(e) = "cache-first"
    /\ ev' = IF Match(cacheNames, store, ev[e].req) = Undefined
             THEN [ev EXCEPT ![e].pc = "stalled"]
             ELSE [ev EXCEPT ![e].pc = "done",
                             ![e].ans = Match(cacheNames, store, ev[e].req)]
    /\ UNCHANGED elsewhere
    /\ UNCHANGED <<cacheNames, store, lifecycle, recent>>

\* Cache-first branch: caches.match(event.request) resolves;
\* cached || fetch(event.request).
LookupLand(e) ==
    /\ ev[e].pc = "match" /\ PolicyOf(e) = "cache-first"
    /\ ev' = IF Match(cacheNames, store, ev[e].req) = Undefined
             THEN [ev EXCEPT ![e].pc = "net", ![e].netCalls = @ + 1]
             ELSE [ev EXCEPT ![e].pc = "done",
                             ![e].ans = Match(cacheNames, store, ev[e].req)]
    /\ UNCHANGED elsewhere
    /\ UNCHANGED <<cacheNames, store, lifecycle, recent>>

\* CacheFirstSettle of a handler that writes the fetched response back.
CacheFirstSettleCaching(e, status) ==
    /\ ev[e].pc = "net" /\ PolicyOf(e) = "cache-first"
    /\ ev' = [ev EXCEPT ![e].pc = "done",
                        ![e].net = NetResult(status),
                        ![e].ans = IF status = 0 THEN Rejected
                                   ELSE NetworkAnswer(Live(e, status)),
                        ![e].wpc = IF Ok(status) THEN "opening" ELSE "none",
                        ![e].wname = IF Ok(status) THEN CACHE_NAME ELSE "none"]
    /\ UNCHANGED elsewhere
    /\ UNCHANGED <<cacheNames, store, lifecycle, recent>>

\* Cache-first branch: the fetch after a lookup miss settles; its result,
\* a response or a rejection, is the answer.
CacheFirstSettle(e, status) ==
    /\ ev[e].pc = "net" /\ PolicyOf(e) = "cache-first"
    /\ ev' = [ev EXCEPT ![e].pc = "done",
                        ![e].net = NetResult(status),
                        ![e].ans = IF status = 0 THEN Rejected
                                   ELSE NetworkAnswer(Live(e, status))]
    /\ UNCHANGED elsewhere
    /\ UNCHANGED <<cacheNames, store, lifecycle, recent>>

\* The script of a worker runs while the worker is not redundant; the script
\* of a redundant worker is stopped at a moment of the browser's choosing.
MayRun(worker, runs) == runs \/ (worker = "old" /\ oldState = "redundant")

\* After caches.open(name) resolved: cache.put(event.request, clone) is called
\* if the script still runs; it throws for a request that is not a GET.
AfterOpen(e, runs) ==
    IF ~runs THEN "dropped"
    ELSE IF ev[e].req.method # "GET" THEN "failed" ELSE "putting"

\* The caches.open of the cache write of event e settles.
WriteOpenLand(e, ok, runs) ==
    /\ ev[e].wpc = "opening"
    /\ MayRun(ev[e].worker, runs)
    /\ IF ok
       THEN /\ cacheNames' = Opened(cacheNames, ev[e].wname)
            /\ ev' = [ev EXCEPT ![e].wpc = AfterOpen(e, runs)]
       ELSE /\ runs
            /\ cacheNames' = cacheNames
            /\ ev' = [ev EXCEPT ![e].wpc = "failed"]
    /\ UNCHANGED elsewhere
    /\ UNCHANGED <<store, lifecycle, recent>>

\* WritePutLand of a Cache that keeps the entry it has.
WritePutLandKeepFirst(e, ok) ==
    /\ ev[e].wpc = "putting"
    /\ IF ok
       THEN /\ store' = IF store[ev[e].wname][ev[e].req.path] = NoEntry
                        THEN [store EXCEPT ![ev[e].wname][ev[e].req.path] = ev[e].ans.resp]
                        ELSE store
            /\ recent' = Written(recent, ev[e].wname, ev[e].req.path)
            /\ ev' = [ev EXCEPT ![e].wpc = "done"]
       ELSE /\ UNCHANGED <<store, recent>>
            /\ ev' = [ev EXCEPT ![e].wpc = "failed"]
    /\ UNCHANGED elsewhere
    /\ UNCHANGED <<cacheNames, lifecycle>>

\* The cache.put of the cache write of event e settles: the clone of the
\* response replaces the entry of the request.
WritePutLand(e, ok) ==
    /\ ev[e].wpc = "putting"
    /\ IF ok
       THEN /\ store' = [store EXCEPT ![ev[e].wname][ev[e].req.path] = ev[e].ans.resp]
            /\ recent' = Written(recent, ev[e].wname, ev[e].req.path)
            /\ ev' = [ev EXCEPT ![e].wpc = "done"]
       ELSE /\ UNCHANGED <<store, recent>>
            /\ ev' = [ev EXCEPT ![e].wpc = "failed"]
    /\ UNCHANGED elsewhere
    /\ UNCHANGED <<cacheNames, lifecycle>>

----
\* install (v10), repeated over the store of its own version

\* An entry of a Cache: the request it is keyed by and the response stored.
Entry(url, resp) == [url |-> url, resp |-> resp]

\* Put of a Cache that only appends.
PutAppending(list, url, resp) == Append(list, Entry(url, resp))

\* cache.put (the last step of cache.add): the entries that match the
\* request are removed from the list and the new entry is appended.
Put(list, url, resp) ==
    Append(SelectSeq(list, LAMBDA en : en.url # url), Entry(url, resp))

\* cache.add(urlsToCache[i]) of the install that runs settles (status 0: the
\* fetch failed).  A rejection is caught and logged.
PrecacheAdd(i, status) ==
    /\ addPc[i] = "pending"
    /\ addPc' = [addPc EXCEPT ![i] = AddResult(status)]
    /\ entries' = IF AddResult(status) = "added"
                  THEN Put(entries, urlsToCache[i],
                           Response("install-v10", installNo, status))
                  ELSE entries
    /\ putCount' = IF AddResult(status) = "added"
                   THEN [putCount EXCEPT ![urlsToCache[i]] = @ + 1]
                   ELSE putCount
    /\ UNCHANGED <<installNo, workerVars, pushVars, pageVars>>

\* The version is installed again (the script changed, CACHE_NAME did not):
\* caches.open(CACHE_NAME) opens the store the install before filled, and
\* every URL of urlsToCache is added again.
Reinstall ==
    /\ \A i \in 1..Len(urlsToCache) : addPc[i] # "pending"
    /\ installNo < MaxInstalls
    /\ installNo' = installNo + 1
    /\ addPc' = [i \in 1..Len(urlsToCache) |-> "pending"]
    /\ UNCHANGED <<entries, putCount, workerVars, pushVars, pageVars>>

PrecacheNext ==
    \/ \E i \in 1..Len(urlsToCache), s \in NetStatuses \cup {0} : PrecacheAdd(i, s)
    \/ Reinstall

PrecacheSpec == Init /\ [][PrecacheNext]_vars

----
\* push and notificationclick

\* Push events are dispatched in the order of their numbers.
PushDispatchable(p) ==
    /\ push[p].pc = "idle"
    /\ \A q \in Pushes : q < p => push[q].pc # "idle"

\* The push handler runs: it builds notificationData from the payload and
\* calls registration.showNotification once.
PushEvent(p, data) ==
    /\ PushDispatchable(p)
    /\ push' = [push EXCEPT ![p] = [pc |-> "showing", data |-> data]]
    /\ shown' = Append(shown, ShowCall(p, NotificationData(data)))
    /\ UNCHANGED <<displayed, windows, canOpenWindow, clickPc, clickLog>>
    /\ UNCHANGED <<workerVars, precacheVars, pageVars>>

\* A notification is put on display: it replaces the one with its tag.
Display(list, n) == Append(SelectSeq(list, LAMBDA d : d.tag # n.tag), n)

\* showNotification of push event p resolves: the notification is on display.
ShowLand(p) ==
    /\ push[p].pc = "showing"
    /\ push' = [push EXCEPT ![p].pc = "done"]
    /\ displayed' = Display(displayed, ShowCall(p, NotificationData(push[p].data)))
    /\ UNCHANGED <<shown, windows, canOpenWindow, clickPc, clickLog>>
    /\ UNCHANGED <<workerVars, precacheVars, pageVars>>

\* A call the notificationclick handler makes.
CloseCall == [call |-> "notification.close", client |-> "none", path |-> <<>>]

FocusCall(client) == [call |-> "client.focus", client |-> client.id, path |-> client.path]

OpenWindowCall(path) == [call |-> "clients.openWindow", client |-> "none", path |-> path]

Without(list, k) == SubSeq(list, 1, k - 1) \o SubSeq(list, k + 1, Len(list))

\* The user clicks notification k: the handler closes it and calls
\* clients.matchAll({ type: 'window', includeUncontrolled: true }).
NotificationClick(k) ==
    /\ clickPc \in {"idle", "done"}
    /\ k \in 1..Len(displayed)
    /\ displayed' = Without(displayed, k)
    /\ clickLog' = <<CloseCall>>
    /\ clickPc' = "matching"
    /\ UNCHANGED <<push, shown, windows, canOpenWindow>>
    /\ UNCHANGED <<workerVars, precacheVars, pageVars>>

\* client.url.includes(self.location.origin) && 'focus' in client
MatchesOrigin(client) == client.origin = Origin /\ client.type = "window"

\* Matching of a handler that never finds a client.
MatchingNone(clientList) == {}

\* The positions in clientList of the clients the loop would focus.
Matching(clientList) == {i \in 1..Len(clientList) : MatchesOrigin(clientList[i])}

\* clients.matchAll resolves: the first client that matches is focused; with
\* none, clients.openWindow('/') is called if the browser defines it.
MatchAllLand ==
    /\ clickPc = "matching"
    /\ clickPc' = "done"
    /\ IF Matching(windows) # {}
       THEN /\ clickLog' = Append(clickLog, FocusCall(windows[First(Matching(windows))]))
            /\ windows' = << windows[First(Matching(windows))] >>
                               \o Without(windows, First(Matching(windows)))
       ELSE IF canOpenWindow
       THEN /\ clickLog' = Append(clickLog, OpenWindowCall(Root))
            /\ windows' = << Window("tab3", Root) >> \o windows
       ELSE UNCHANGED <<clickLog, windows>>
    /\ UNCHANGED <<push, shown, displayed, canOpenWindow>>
    /\ UNCHANGED <<workerVars, precacheVars, pageVars>>

PushNext ==
    \/ \E p \in Pushes, data \in PushData : PushEvent(p, data)
    \/ \E p \in Pushes : ShowLand(p)
    \/ \E k \in 1..MaxPushes : NotificationClick(k)
    \/ MatchAllLand

\* The worker before its install, with any of the lists of windows open, in
\* a browser that defines clients.openWindow or in one that does not.
InitPush == WorkerInit /\ PrecacheInit /\ PushInit /\ PageQuiet

PushSpec == InitPush /\ [][PushNext]_vars

----
\* The page: the tabs and the auto-refresh of the transactions
\* (navigation.js, autorefresh.js, state.js)

\* The setInterval calls made.
MaxIntervals == 4

\* The tabs of the application.
Tabs == {"activity", "goals", "expenses", "family", "cards", "credit"}

\* The auto-refresh timer: the variable of state.js, the interval timers
\* that are live and the number of handles issued.
TimerState(ref, live, issued) == [ref |-> ref, live |-> live, issued |-> issued]

Timer == TimerState(transactionRefreshInterval, intervals, intervalsIssued)

\* clearInterval(handle)
ClearInterval(live, handle) == live \ {handle}

\* startTransactionAutoRefresh without the clearInterval of the timer it
\* replaces.
startTransactionAutoRefreshKeeping(t) ==
    TimerState(t.issued + 1, t.live \cup {t.issued + 1}, t.issued + 1)

\* startTransactionAutoRefresh(): the existing timer, if any, is cleared and
\* the handle of a new one is kept.
startTransactionAutoRefresh(t) ==
    TimerState(t.issued + 1,
               (IF t.ref # Null THEN ClearInterval(t.live, t.ref) ELSE t.live)
                   \cup {t.issued + 1},
               t.issued + 1)

\* stopTransactionAutoRefresh(): the timer, if any, is cleared and forgotten.
stopTransactionAutoRefresh(t) ==
    IF t.ref # Null
    THEN TimerState(Null, ClearInterval(t.live, t.ref), t.issued)
    ELSE t

\* The functions switchTab(tab) calls.
SwitchTabCalls(tab) ==
    (IF tab = "activity" THEN {"reloadTx", "startTransactionAutoRefresh"}
     ELSE {"stopTransactionAutoRefresh"})
    \cup {"initBalances"}
    \cup (IF tab = "expenses" THEN {"loadExpenses"} ELSE {})
    \cup (IF tab = "goals" THEN {"loadGoals"} ELSE {})
    \cup (IF tab = "family" THEN {"loadFamily"} ELSE {})
    \cup (IF tab = "cards" THEN {"loadCards"} ELSE {})
    \cup (IF tab = "credit" THEN {"loadCreditSetup"} ELSE {"cleanupCreditCardIntervals"})

\* The timer after switchTab(tab).
SwitchTabTimer(tab, t) ==
    IF tab = "activity" THEN startTransactionAutoRefresh(t)
    ELSE stopTransactionAutoRefresh(t)

SetTimer(t) ==
    /\ transactionRefreshInterval' = t.ref
    /\ intervals' = t.live
    /\ intervalsIssued' = t.issued

\* switchTab(tab): the view of the tab becomes the only active one and the
\* auto-refresh is started for 'activity' and stopped for every other tab.
switchTab(tab) ==
    /\ tab = "activity" => intervalsIssued < MaxIntervals
    /\ activeView' = tab
    /\ SetTimer(SwitchTabTimer(tab, Timer))
    /\ lastTab' = tab
    /\ lastCall' = "switchTab"
    /\ lastStep' = [by |-> "switchTab", calls |-> SwitchTabCalls(tab)]
    /\ UNCHANGED <<workerVars, precacheVars, pushVars, dragVars>>

\* startTransactionAutoRefresh() called on its own.
StartCall ==
    /\ intervalsIssued < MaxIntervals
    /\ SetTimer(startTransactionAutoRefresh(Timer))
    /\ lastCall' = "startTransactionAutoRefresh"
    /\ lastStep' = [by |-> "startTransactionAutoRefresh", calls |-> {}]
    /\ UNCHANGED <<activeView, lastTab>>
    /\ UNCHANGED <<workerVars, precacheVars, pushVars, dragVars>>

\* stopTransactionAutoRefresh() called on its own.
StopCall ==
    /\ SetTimer(stopTransactionAutoRefresh(Timer))
    /\ lastCall' = "stopTransactionAutoRefresh"
    /\ lastStep' = [by |-> "stopTransactionAutoRefresh", calls |-> {}]
    /\ UNCHANGED <<activeView, lastTab>>
    /\ UNCHANGED <<workerVars, precacheVars, pushVars, dragVars>>

\* The functions the callback of the interval timer calls.
TickCalls(view) == IF view = "activity" THEN {"reloadTx"} ELSE {}

\* A live interval timer expires: its callback runs.
Tick(handle) ==
    /\ handle \in intervals
    /\ lastStep' = [by |-> "tick", calls |-> TickCalls(activeView)]
    /\ UNCHANGED <<transactionRefreshInterval, intervals, intervalsIssued, activeView,
                   lastTab, lastCall>>
    /\ UNCHANGED <<workerVars, precacheVars, pushVars, dragVars>>

RefreshNext ==
    \/ \E tab \in Tabs : switchTab(tab)
    \/ StartCall
    \/ StopCall
    \/ \E handle \in 1..MaxIntervals : Tick(handle)

\* The worker before its install and the page loaded, with the view of the
\* activity tab marked active by the markup or not.
InitRefresh ==
    /\ WorkerInit /\ PrecacheInit /\ PushQuiet
    /\ RefreshInit /\ DragStart(<<"p1", "p2">>)

RefreshSpec == InitRefresh /\ [][RefreshNext]_vars

----
\* The page: dragging a pocket, by touch or with the mouse, and saving the
\* new order (groups.js)

\* The setTimeout calls made.
MaxTimeouts == 2

\* The savePocketOrder calls made.
MaxSaves == 1

\* The fingers on the screen at one time.
MaxFingers == 2

Pockets == {"p1", "p2"}

\* The orders #goals-list can show.
Orders == {<<"p1", "p2">>, <<"p2", "p1">>}

\* The values of clientX and clientY.
Coords == {0, 20}

\* What is under the pointer: the list, or nothing that takes a drop.
Zones == {"goals-list", "none"}

Abs(n) == IF n < 0 THEN 0 - n ELSE n

\* deltaY > 10 || deltaX > 10
Moved(y, x) == Abs(y - touchStartY) > 10 \/ Abs(x - touchStartX) > 10

\* setTimeout(callback, delay): a pending timer; kind names the callback.
Timeout(handle, kind, item) == [handle |-> handle, kind |-> kind, item |-> item]

\* clearTimeout(handle)
ClearTimeout(pending, handle) == {t \in pending : t.handle # handle}

\* if (longPressTimer) { clearTimeout(longPressTimer); longPressTimer = null; }
ClearLongPress ==
    /\ timeouts' = IF longPressTimer # Null THEN ClearTimeout(timeouts, longPressTimer)
                   ELSE timeouts
    /\ longPressTimer' = Null

\* The elements getDragAfterElement chooses among: the pockets of the list
\* that are not marked 'is-dragging', or none ("null").
AfterElements ==
    ({goalsList[i] : i \in 1..Len(goalsList)} \ isDraggingClass) \cup {"null"}

IndexOf(list, item) == CHOOSE i \in 1..Len(list) : list[i] = item

\* listContainer.appendChild(item) for "null", listContainer.insertBefore(item,
\* after) otherwise: the item is taken from its place and put before after.
InsertBefore(list, item, after) ==
    IF after = item THEN list
    ELSE IF after = "null" THEN Append(SelectSeq(list, LAMBDA q : q # item), item)
    ELSE SubSeq(SelectSeq(list, LAMBDA q : q # item), 1,
                IndexOf(SelectSeq(list, LAMBDA q : q # item), after) - 1)
         \o <<item>>
         \o SubSeq(SelectSeq(list, LAMBDA q : q # item),
                   IndexOf(SelectSeq(list, LAMBDA q : q # item), after),
                   Len(list) - 1)

\* A call of savePocketOrder(groupId, orderedIds): the fetch it started and
\* what its reactions did.
Save(ids, pc, result, alerted, reloaded) ==
    [ids |-> ids, pc |-> pc, result |-> result, alerted |-> alerted,
     reloaded |-> reloaded]

\* savePocketOrder(null, orderedIds) up to its return: the POST is sent.
savePocketOrder(list, orderedIds) ==
    Append(list, Save(orderedIds, "sent", "none", FALSE, FALSE))

\* An input that the branch taken does not read is given one value only.
Unread(zone, after) == zone = "none" /\ after = "null"

\* Mobile touch start handler: the position is kept, drag mode is switched
\* off and, on a pocket, a long-press timer is started.
handleTouchStart(target, y, x) ==
    /\ touches < MaxFingers
    /\ target # "null" => timeoutsIssued < MaxTimeouts
    /\ touchStartY' = y
    /\ touchStartX' = x
    /\ isDragging' = FALSE
    /\ IF target # "null"
       THEN /\ longPressTimer' = timeoutsIssued + 1
            /\ timeouts' = timeouts \cup {Timeout(timeoutsIssued + 1, "long-press", target)}
            /\ timeoutsIssued' = timeoutsIssued + 1
       ELSE UNCHANGED <<longPressTimer, timeouts, timeoutsIssued>>
    /\ touches' = touches + 1
    /\ lastInput' = "touchstart"
    /\ UNCHANGED <<draggedItem, isDraggingClass, dragModeActive, dragActive, goalsList,
                   serverOrder, saves, mouse>>
    /\ UNCHANGED <<workerVars, precacheVars, pushVars, refreshVars>>

\* The callback of a long-press timer, 500 ms after its touchstart: drag
\* mode is switched on for the pocket of that touchstart.
LongPress(t) ==
    /\ t \in timeouts /\ t.kind = "long-press"
    /\ timeouts' = timeouts \ {t}
    /\ isDragging' = TRUE
    /\ draggedItem' = t.item
    /\ isDraggingClass' = isDraggingClass \cup {t.item}
    /\ dragModeActive' = TRUE
    /\ UNCHANGED <<touchStartY, touchStartX, longPressTimer, timeoutsIssued, dragActive,
                   goalsList, serverOrder, saves, touches, mouse, lastInput>>
    /\ UNCHANGED <<workerVars, precacheVars, pushVars, refreshVars>>

\* Mobile touch move handler: a move before the long press cancels the
\* timer; in drag mode the pocket follows the finger.
handleTouchMove(y, x, zone, after) ==
    /\ touches > 0
    /\ after \in AfterElements
    /\ IF ~isDragging /\ Moved(y, x)
       THEN /\ Unread(zone, after)
            /\ ClearLongPress
            /\ UNCHANGED <<dragActive, goalsList>>
       ELSE IF ~isDragging \/ draggedItem = "null"
       THEN /\ Unread(zone, after)
            /\ UNCHANGED <<longPressTimer, timeouts, dragActive, goalsList>>
       ELSE /\ zone = "none" => after = "null"
            /\ dragActive' = (zone # "none")
            /\ goalsList' = IF zone = "goals-list"
                            THEN InsertBefore(goalsList, draggedItem, after)
                            ELSE goalsList
            /\ UNCHANGED <<longPressTimer, timeouts>>
    /\ lastInput' = "touchmove"
    /\ UNCHANGED <<draggedItem, touchStartY, touchStartX, isDragging, timeoutsIssued,
                   isDraggingClass, dragModeActive, serverOrder, saves, touches, mouse>>
    /\ UNCHANGED <<workerVars, precacheVars, pushVars, refreshVars>>

\* Mobile touch end handler: the timer is cleared; a drag in progress is
\* completed, over the list by saving the order the list shows.
handleTouchEnd(zone) ==
    /\ touches > 0
    /\ ClearLongPress
    /\ IF ~isDragging \/ draggedItem = "null"
       THEN /\ zone = "none"
            /\ UNCHANGED <<dragActive, isDraggingClass, saves>>
       ELSE /\ zone = "goals-list" => Len(saves) < MaxSaves
            /\ dragActive' = FALSE
            /\ isDraggingClass' = isDraggingClass \ {draggedItem}
            /\ saves' = IF zone = "goals-list" THEN savePocketOrder(saves, goalsList)
                        ELSE saves
    /\ dragModeActive' = FALSE
    /\ draggedItem' = "null"
    /\ isDragging' = FALSE
    /\ touches' = touches - 1
    /\ lastInput' = "touchend"
    /\ UNCHANGED <<touchStartY, touchStartX, timeoutsIssued, goalsList, serverOrder, mouse>>
    /\ UNCHANGED <<workerVars, precacheVars, pushVars, refreshVars>>

\* Mobile touch cancel handler: everything is cleaned up, nothing is saved.
handleTouchCancel ==
    /\ touches > 0
    /\ ClearLongPress
    /\ isDraggingClass' = IF draggedItem # "null" THEN isDraggingClass \ {draggedItem}
                          ELSE isDraggingClass
    /\ dragActive' = FALSE
    /\ dragModeActive' = FALSE
    /\ draggedItem' = "null"
    /\ isDragging' = FALSE
    /\ touches' = touches - 1
    /\ lastInput' = "touchcancel"
    /\ UNCHANGED <<touchStartY, touchStartX, timeoutsIssued, goalsList, serverOrder, saves,
                   mouse>>
    /\ UNCHANGED <<workerVars, precacheVars, pushVars, refreshVars>>

\* Desktop drag start handler.
drag(item) ==
    /\ mouse = "idle"
    /\ timeoutsIssued < MaxTimeouts
    /\ draggedItem' = item
    /\ timeouts' = timeouts \cup {Timeout(timeoutsIssued + 1, "drag-image", item)}
    /\ timeoutsIssued' = timeoutsIssued + 1
    /\ mouse' = "dragging"
    /\ lastInput' = "dragstart"
    /\ UNCHANGED <<touchStartY, touchStartX, isDragging, longPressTimer, isDraggingClass,
                   dragModeActive, dragActive, goalsList, serverOrder, saves, touches>>
    /\ UNCHANGED <<workerVars, precacheVars, pushVars, refreshVars>>

\* setTimeout(() => ev.target.classList.add('is-dragging'), 0) of drag.
DragImage(t) ==
    /\ t \in timeouts /\ t.kind = "drag-image"
    /\ timeouts' = timeouts \ {t}
    /\ isDraggingClass' = isDraggingClass \cup {t.item}
    /\ UNCHANGED <<draggedItem, touchStartY, touchStartX, isDragging, longPressTimer,
                   timeoutsIssued, dragModeActive, dragActive, goalsList, serverOrder,
                   saves, touches, mouse, lastInput>>
    /\ UNCHANGED <<workerVars, precacheVars, pushVars, refreshVars>>

\* Desktop allow drop handler (dragover): over the list, the dragged pocket
\* is moved to where the pointer is.
allowDrop(zone, after) ==
    /\ mouse = "dragging"
    /\ after \in AfterElements
    /\ IF zone = "none"
       THEN /\ after = "null"
            /\ UNCHANGED <<dragActive, goalsList>>
       ELSE /\ dragActive' = TRUE
            /\ goalsList' = IF draggedItem # "null"
                            THEN InsertBefore(goalsList, draggedItem, after)
                            ELSE goalsList
    /\ lastInput' = "dragover"
    /\ UNCHANGED <<draggedItem, touchStartY, touchStartX, isDragging, longPressTimer,
                   timeouts, timeoutsIssued, isDraggingClass, dragModeActive, serverOrder,
                   saves, touches, mouse>>
    /\ UNCHANGED <<workerVars, precacheVars, pushVars, refreshVars>>

\* Desktop drop handler: over the list, the order the list shows is saved.
drop(zone) ==
    /\ mouse = "dragging"
    /\ IF zone = "none"
       THEN UNCHANGED <<dragActive, isDraggingClass, draggedItem, saves>>
       ELSE /\ Len(saves) < MaxSaves
            /\ dragActive' = FALSE
            /\ isDraggingClass' = IF draggedItem # "null"
                                  THEN isDraggingClass \ {draggedItem}
                                  ELSE isDraggingClass
            /\ draggedItem' = "null"
            /\ saves' = savePocketOrder(saves, goalsList)
    /\ mouse' = "dropped"
    /\ lastInput' = "drop"
    /\ UNCHANGED <<touchStartY, touchStartX, isDragging, longPressTimer, timeouts,
                   timeoutsIssued, dragModeActive, goalsList, serverOrder, touches>>
    /\ UNCHANGED <<workerVars, precacheVars, pushVars, refreshVars>>

\* The dragend listener: the styles are cleaned up, dropped or not.
dragend ==
    /\ mouse \in {"dragging", "dropped"}
    /\ isDraggingClass' = {}
    /\ dragActive' = FALSE
    /\ mouse' = "idle"
    /\ lastInput' = "dragend"
    /\ UNCHANGED <<draggedItem, touchStartY, touchStartX, isDragging, longPressTimer,
                   timeouts, timeoutsIssued, dragModeActive, goalsList, serverOrder,
                   saves, touches>>
    /\ UNCHANGED <<workerVars, precacheVars, pushVars, refreshVars>>

\* How the POST of a save can end: the server stored the order and answered
\* {success: true}; it answered {success: false, error}; it answered with a
\* body that is not JSON; the fetch failed.
SaveResults == {"saved", "refused", "not-json", "network-error"}

\* The reactions of savePocketOrder to the end of its fetch: both JSON
\* answers call loadGoals(true), the refusal after appAlert; a rejection of
\* fetch or of res.json() is logged by the catch.
Settled(save, result) ==
    Save(save.ids, "done", result, result = "refused",
         result \in {"saved", "refused"})

\* The fetch of the save numbered k ends and the reactions run.
SaveLand(k, result) ==
    /\ k \in 1..Len(saves) /\ saves[k].pc = "sent"
    /\ saves' = [saves EXCEPT ![k] = Settled(saves[k], result)]
    /\ serverOrder' = IF result = "saved" THEN saves[k].ids ELSE serverOrder
    /\ UNCHANGED <<draggedItem, touchStartY, touchStartX, isDragging, longPressTimer,
                   timeouts, timeoutsIssued, isDraggingClass, dragModeActive, dragActive,
                   goalsList, touches, mouse, lastInput>>
    /\ UNCHANGED <<workerVars, precacheVars, pushVars, refreshVars>>

DragNext ==
    \/ \E target \in Pockets \cup {"null"}, y \in Coords, x \in Coords :
           handleTouchStart(target, y, x)
    \/ \E handle \in 1..MaxTimeouts, item \in Pockets :
           LongPress(Timeout(handle, "long-press", item))
    \/ \E y \in Coords, x \in Coords, zone \in Zones, after \in Pockets \cup {"null"} :
           handleTouchMove(y, x, zone, after)
    \/ \E zone \in Zones : handleTouchEnd(zone)
    \/ handleTouchCancel
    \/ \E item \in Pockets : drag(item)
    \/ \E handle \in 1..MaxTimeouts, item \in Pockets :
           DragImage(Timeout(handle, "drag-image", item))
    \/ \E zone \in Zones, after \in Pockets \cup {"null"} : allowDrop(zone, after)
    \/ \E zone \in Zones : drop(zone)
    \/ dragend
    \/ \E k \in 1..MaxSaves, result \in SaveResults : SaveLand(k, result)

DragInit == \E order \in Orders : DragStart(order)

\* The worker before its install and the page loaded, showing the pockets
\* in the order the server has stored.
InitDrag ==
    /\ WorkerInit /\ PrecacheInit /\ PushQuiet
    /\ RefreshStart("none") /\ DragInit

DragSpec == InitDrag /\ [][DragNext]_vars

----
Next ==
    \/ \E ok \in BOOLEAN : InstallOpenLand(ok)
    \/ \E i \in 1..Len(urlsToCache), s \in NetStatuses \cup {0} : InstallAddSettle(i, s)
    \/ InstallSettled
    \/ ActivateStart
    \/ KeysLand
    \/ \E n \in StoreNames, ok \in BOOLEAN : DeleteLand(n, ok)
    \/ ClaimLand
    \/ ActivateSettle
    \/ \E e \in Events, r \in Requests : FetchEvent(e, r)
    \/ \E e \in Events, r \in Requests : OldFetchEvent(e, r)
    \/ \E e \in Events, s \in NetStatuses \cup {0} : ApiSettle(e, s)
    \/ \E e \in Events, s \in NetStatuses \cup {0} : NetworkFirstSettle(e, s)
    \/ \E e \in Events, s \in NetStatuses \cup {0} : OldApiSettle(e, s)
    \/ \E e \in Events : FallbackLand(e)
    \/ \E e \in Events : LookupLand(e)
    \/ \E e \in Events, s \in NetStatuses \cup {0} : CacheFirstSettle(e, s)
    \/ \E e \in Events, ok \in BOOLEAN, runs \in BOOLEAN : WriteOpenLand(e, ok, runs)
    \/ \E e \in Events, ok \in BOOLEAN : WritePutLand(e, ok)

Spec == Init /\ [][Next]_vars

\* The steps of the install handler: every cache.add settles (its fetch
\* resolves or rejects) and the reaction of Promise.allSettled runs.
InstallStep ==
    \/ \E i \in 1..Len(urlsToCache), s \in NetStatuses \cup {0} : InstallAddSettle(i, s)
    \/ InstallSettled

\* Spec with the install handler running to its end and the reaction of the
\* promise given to waitUntil in activate running once that promise settles.
LiveSpec == Spec /\ WF_vars(InstallStep) /\ WF_vars(ActivateSettle)

\* The operation the promise given to respondWith for event e waits for
\* settles: its network fetch resolves or rejects, or its cache lookup
\* resolves.
SettleStep(e) ==
    \/ \E s \in NetStatuses \cup {0} : ApiSettle(e, s)
    \/ \E s \in NetStatuses \cup {0} : NetworkFirstSettle(e, s)
    \/ \E s \in NetStatuses \cup {0} : OldApiSettle(e, s)
    \/ \E s \in NetStatuses \cup {0} : CacheFirstSettle(e, s)
    \/ FallbackLand(e)
    \/ LookupLand(e)

\* Spec with every network fetch and every cache lookup of a fetch event
\* settling: the handler applies no timeout, and the browser settles each of
\* them one way or the other.
FetchLiveSpec == Spec /\ \A e \in Events : WF_vars(SettleStep(e))

----
\* Claims

\* Event e was handled by the v10 worker under the given policy.
Handled(e, policy) == ev[e].worker = "new" /\ Policy(ev[e].req) = policy

\* C1: when the promise of the activate step of v10 fulfils, the list of the
\* cache stores is exactly the one store named CACHE_NAME.
C1_OnlyCurrentStoreAtActivation ==
    [][(actResult = "pending" /\ actResult' = "fulfilled")
          => cacheNames' = <<CACHE_NAME>>]_vars

IsApiPath(path) == Len(path) >= 2 /\ path[1] = "api"

\* C2 as stated: no cache store ever holds an entry keyed by an '/api/'
\* request.
C2_NoApiEntryInAnyStore ==
    \A n \in StoreNames, u \in URLs : IsApiPath(u) => store[n][u] = NoEntry

\* C2 amended: the v10 handler neither writes nor reads a cache for an
\* '/api/' request, whatever its method or mode: no step of such an event
\* changes a store, no cache write is started for it, its answer is never a
\* cache snapshot, and the store named CACHE_NAME never holds an '/api/'
\* entry.  (An entry of the v7 store keyed by an '/api/' request was written
\* by the v7 worker.)
C2_ApiBypassesCache ==
    /\ [](\A e \in Events :
            ev[e].worker = "new" /\ IsApiPath(ev[e].req.path)
                => ev[e].wpc = "none" /\ ev[e].ans.kind # "cache" /\ ev[e].pc # "match")
    /\ [](\A u \in URLs : IsApiPath(u) => store[CACHE_NAME][u] = NoEntry)
    /\ [][\A e \in Events :
            ev[e].worker = "new" /\ IsApiPath(ev[e].req.path) /\ ev'[e] # ev[e]
                => store' = store /\ cacheNames' = cacheNames]_vars

\* C2 witness: an '/api/' navigation was answered by the network, and an
\* '/api/' request that failed got its answer, with nothing written.
C2_Witness ==
    \E e \in Events :
        /\ ev[e].worker = "new" /\ ev[e].req.path = ApiGoals
        /\ ev[e].req.mode = "navigate"
        /\ ev[e].pc = "done" /\ ev[e].net = "answered" /\ Ok(ev[e].ans.resp.status)

\* C3: no answer of the v10 worker is a snapshot of the store of the
\* previous version.
C3_NoSnapshotOfOldStore ==
    \A e \in Events :
        ev[e].worker = "new" /\ ev[e].ans.kind = "cache"
            => ev[e].ans.store # OLD_CACHE_NAME

\* The substitute the API branch is said to answer with: status 503,
\* content-type application/json, a JSON body of the one field error.
IsOfflineSubstitute(ans) ==
    /\ ans.kind = "synth"
    /\ ans.resp.status = 503
    /\ ans.ctype = "application/json"
    /\ Len(ans.body) = 1 /\ ans.body[1][1] = "error"

\* C4 as stated: an '/api/' request with method GET or HEAD whose fetch failed
\* is answered with the substitute.
C4_ReadMethodsGetSubstitute ==
    \A e \in Events :
        /\ Handled(e, "network-only") /\ ev[e].pc = "done" /\ ev[e].net = "failed"
        /\ ev[e].req.method \in {"GET", "HEAD"}
        => IsOfflineSubstitute(ev[e].ans)

\* C4 amended: an '/api/' request with method GET whose fetch failed is
\* answered with the substitute (status 503, content-type application/json, a
\* JSON body of the one field error); the promise does not reject.
C4_GetGetsSubstitute ==
    \A e \in Events :
        /\ Handled(e, "network-only") /\ ev[e].pc = "done" /\ ev[e].net = "failed"
        /\ ev[e].req.method = "GET"
        => IsOfflineSubstitute(ev[e].ans)

\* C4 witness: a GET '/api/' request whose fetch failed has been answered.
C4_Witness ==
    \E e \in Events :
        /\ Handled(e, "network-only") /\ ev[e].pc = "done" /\ ev[e].net = "failed"
        /\ ev[e].req.method = "GET" /\ ev[e].req.mode = "cors"

\* C5 as stated: for an '/api/' request with a write method whose fetch
\* failed, the promise given to respondWith rejects.
C5_WriteFailureRejects ==
    \A e \in Events :
        /\ Handled(e, "network-only") /\ ev[e].pc = "done" /\ ev[e].net = "failed"
        /\ ev[e].req.method = "POST"
        => ev[e].ans.kind = "rejected"

\* C5 amended: for an '/api/' request whose method is not GET and whose fetch
\* failed, the promise given to respondWith fulfils with undefined: no
\* substitute Response is made and the promise does not reject (respondWith
\* turns the missing Response into a network error, so the page's fetch
\* rejects).
C5_WriteFailureIsUndefined ==
    \A e \in Events :
        /\ Handled(e, "network-only") /\ ev[e].pc = "done" /\ ev[e].net = "failed"
        /\ ev[e].req.method # "GET"
        => ev[e].ans = Undefined

\* C5 witness: a POST '/api/' request whose fetch failed has been answered.
C5_Witness ==
    \E e \in Events :
        /\ Handled(e, "network-only") /\ ev[e].pc = "done" /\ ev[e].net = "failed"
        /\ ev[e].req.method = "POST"

\* C6 as stated: when the fetch of a network-first request succeeded (2xx),
\* the answer is the live response and the store named CACHE_NAME holds a
\* snapshot for the request once the request has completed.
C6_SnapshotExistsAtCompletion ==
    \A e \in Events :
        /\ Handled(e, "network-first") /\ ev[e].pc = "done"
        /\ ev[e].net = "answered" /\ Ok(ev[e].ans.resp.status)
        => /\ ev[e].ans = NetworkAnswer(Live(e, ev[e].ans.resp.status))
           /\ store[CACHE_NAME][ev[e].req.path] # NoEntry

\* C6 amended: when the fetch of a network-first request succeeded, the
\* answer is the live response; for a 2xx response a write of its clone into
\* the store named CACHE_NAME has been started when the request completes,
\* and the snapshot exists once that write has landed: the put stores the
\* clone of this response under the request, and from then on the store holds
\* a snapshot for it.  The answer does not wait for the write, which may land
\* later, fail, or (for a request that is not a GET) throw.
C6_LiveAnswerAndWriteStarted ==
    /\ [](\A e \in Events :
            /\ Handled(e, "network-first") /\ ev[e].pc = "done"
            /\ ev[e].net = "answered"
            => /\ ev[e].ans = NetworkAnswer(Live(e, ev[e].ans.resp.status))
               /\ Ok(ev[e].ans.resp.status)
                    => ev[e].wpc # "none" /\ ev[e].wname = CACHE_NAME
               /\ ev[e].wpc = "done" => store[CACHE_NAME][ev[e].req.path] # NoEntry)
    /\ [][\A e \in Events :
            Handled(e, "network-first") /\ ev[e].wpc # "done" /\ ev'[e].wpc = "done"
                => store'[CACHE_NAME][ev[e].req.path] = ev[e].ans.resp]_vars

\* C6 witness: a network-first request was answered by the network with a
\* 2xx response while its snapshot was not in the store yet, and another
\* whose write has landed.
C6_Witness ==
    \E e \in Events :
        /\ Handled(e, "network-first") /\ ev[e].pc = "done"
        /\ ev[e].net = "answered" /\ Ok(ev[e].ans.resp.status)
        /\ ev[e].wpc = "done"
        /\ store[CACHE_NAME][ev[e].req.path] = ev[e].ans.resp

\* C7: when the fetch of a network-first request failed, the answer is the
\* snapshot stored last for the request if a store holds one, and undefined
\* (a lookup miss, no rejection) if none does.
C7_FallbackIsLastStored ==
    [][\A e \in Events :
          Handled(e, "network-first") /\ ev[e].pc = "match" /\ ev'[e].pc = "done"
          => IF ev[e].req.method = "GET" /\ recent[ev[e].req.path] # <<>>
             THEN /\ ev'[e].ans.kind = "cache"
                  /\ ev'[e].ans.resp =
                        store[recent[ev[e].req.path][1]][ev[e].req.path]
             ELSE ev'[e].ans = Undefined]_vars

\* A store holds a snapshot for the request.
Stored(req) ==
    /\ req.method = "GET"
    /\ \E n \in Range(cacheNames) : store[n][req.path] # NoEntry

\* C8: a cache-first request for which a snapshot exists when the lookup
\* resolves is answered with a stored snapshot, unchanged, and no network
\* fetch is issued for it, then or later.
C8_HitSkipsNetwork ==
    /\ [][\A e \in Events :
            /\ Handled(e, "cache-first") /\ ev[e].pc = "match" /\ ev'[e].pc # "match"
            /\ Stored(ev[e].req)
            => /\ ev'[e].pc = "done"
               /\ ev'[e].netCalls = 0
               /\ ev'[e].ans.kind = "cache"
               /\ ev'[e].ans.store \in Range(cacheNames)
               /\ ev'[e].ans.resp = store[ev'[e].ans.store][ev[e].req.path]]_vars
    /\ [](\A e \in Events :
            Handled(e, "cache-first") /\ ev[e].ans.kind = "cache"
                => ev[e].netCalls = 0 /\ ev[e].pc = "done")

\* C8 witness: a cache-first request was answered with the snapshot of the
\* store named CACHE_NAME.
C8_Witness ==
    \E e \in Events :
        /\ Handled(e, "cache-first") /\ ev[e].pc = "done"
        /\ ev[e].ans = CacheAnswer(Response("install-v10", 0, 200), CACHE_NAME)
        /\ ev[e].netCalls = 0

\* C9: a cache-first request with no stored snapshot is fetched from the
\* network exactly once and the result of that fetch is its answer; no step
\* of the request changes a cache store or the list of the stores and no
\* cache write is started for it.
C9_MissFetchesOnceWritesNothing ==
    /\ [](\A e \in Events :
            Handled(e, "cache-first")
            => /\ ev[e].wpc = "none"
               /\ ev[e].netCalls <= 1
               /\ ev[e].pc = "done" /\ ev[e].ans.kind # "cache"
                    => /\ ev[e].netCalls = 1
                       /\ \/ ev[e].net = "failed" /\ ev[e].ans = Rejected
                          \/ /\ ev[e].net = "answered"
                             /\ ev[e].ans = NetworkAnswer(Live(e, ev[e].ans.resp.status)))
    /\ [][\A e \in Events :
            Handled(e, "cache-first") /\ ev'[e] # ev[e]
                => store' = store /\ cacheNames' = cacheNames]_vars

\* C9 witness: the same request, never cached, was sent twice and went to
\* the network both times.
C9_Witness ==
    /\ \A e \in {1, 2} :
        /\ Handled(e, "cache-first") /\ ev[e].req.path = Logo
        /\ ev[e].pc = "done" /\ ev[e].netCalls = 1 /\ ev[e].net = "answered"
    /\ \A n \in StoreNames : store[n][Logo] = NoEntry

\* The policy the precedence of the claim gives a request, from its path and
\* its mode alone.
ByPrecedence(path, mode) ==
    CASE IsApiPath(path) -> "network-only"
      [] ~IsApiPath(path) /\ mode = "navigate" -> "network-first"
      [] ~IsApiPath(path) /\ mode # "navigate" /\ Len(path) >= 3
            /\ path[1] = "static" /\ path[2] \in {"js", "css"} -> "network-first"
      [] OTHER -> "cache-first"

\* C10: every fetch event of the v10 worker gets one respondWith, and is
\* handled as the precedence says: network-only ('/api/') starts with a
\* fetch, never looks a cache up and never writes one; network-first starts
\* with a fetch and looks the cache up only after it failed; cache-first
\* starts with a lookup, fetches only after it and never writes.
C10_OnePolicyByPrecedence ==
    \A e \in Events :
        ev[e].worker = "new" =>
            /\ ev[e].responds = 1
            /\ ByPrecedence(ev[e].req.path, ev[e].req.mode) = "network-only"
                => /\ ev[e].pc \in {"net", "done"} /\ ev[e].netCalls = 1
                   /\ ev[e].wpc = "none"
                   /\ ev[e].ans.kind \in {"pending", "network", "synth", "undefined"}
            /\ ByPrecedence(ev[e].req.path, ev[e].req.mode) = "network-first"
                => /\ ev[e].netCalls = 1
                   /\ ev[e].pc = "match" => ev[e].net = "failed"
                   /\ ev[e].ans.kind \in {"pending", "network", "cache", "undefined"}
                   /\ ev[e].ans.kind \in {"cache", "undefined"} => ev[e].net = "failed"
            /\ ByPrecedence(ev[e].req.path, ev[e].req.mode) = "cache-first"
                => /\ ev[e].pc = "match" => ev[e].netCalls = 0 /\ ev[e].net = "none"
                   /\ ev[e].pc = "net" => ev[e].netCalls = 1
                   /\ ev[e].wpc = "none"
                   /\ ev[e].ans.kind \in {"pending", "cache", "network", "rejected"}

\* C10 witness: an '/api/' navigation was handled network-only (a failure
\* substituted) and a script under '/static/js/api/' network-first (cached).
C10_Witness ==
    \E d, e \in Events :
        /\ ev[d].worker = "new" /\ ev[d].req = Req(ApiGoals, "navigate", "GET")
        /\ ev[d].ans = OfflineResponse
        /\ ev[e].worker = "new" /\ ev[e].req.path = CardsJs
        /\ ev[e].wpc = "done"

\* Every cache.add of the install has settled.
AllAddsSettled == \A i \in 1..Len(urlsToCache) : addState[i] # "pending"

\* C11: once the store of the install could be opened, no failure of a
\* pre-cache fetch fails the install, whichever URLs fail: the install never
\* leaves its pre-population for anything but its completion, it can
\* complete as soon as every add has settled and comes to complete, and when
\* the promise given to waitUntil fulfils every URL was attempted and has
\* settled.
C11_InstallSurvivesFailedAdds ==
    /\ [][instPc = "adding" => instPc' \in {"adding", "done"}
                              /\ newState' \in {"installing", "installed"}]_vars
    /\ [](instPc = "adding" /\ AllAddsSettled => ENABLED InstallSettled)
    /\ [](instPc = "done" => AllAddsSettled /\ newState # "installing")
    /\ [][instPc = "adding" /\ instPc' = "done" => newState' = "installed"]_vars
    /\ (instPc = "adding" ~> instPc = "done")

\* C11 witness: the install completed with the fetch of every URL failed.
C11_Witness ==
    /\ instPc = "done" /\ newState = "installed"
    /\ \A i \in 1..Len(urlsToCache) : addState[i] = "failed"

\* C12: self.skipWaiting() is called only when every add has settled, as the
\* last step of the install, and every install whose store could be opened
\* comes to call it.
C12_SkipWaitingAfterAllSettled ==
    /\ [](skipWaiting => AllAddsSettled /\ instPc = "done")
    /\ [][~skipWaiting /\ skipWaiting' => instPc = "adding" /\ AllAddsSettled]_vars
    /\ [](instPc = "done" => skipWaiting)
    /\ (instPc = "adding" ~> skipWaiting)

\* C12 witness: skipWaiting was called after adds that succeeded and adds
\* that failed.
C12_Witness ==
    /\ skipWaiting
    /\ addState[1] = "failed" /\ addState[2] = "added"

\* The promise given to waitUntil in the activate handler has settled.
ActivationSettled == actResult \in {"fulfilled", "rejected"}

\* C13: once the activation step of the v10 worker has completed, every open
\* page is controlled by the v10 worker, and every fetch event dispatched
\* from then on goes to the v10 worker, none to the v7 worker.
C13_ClientsControlledAfterActivation ==
    /\ [](ActivationSettled => \A c \in Clients : controller[c] = "new")
    /\ [][\A e \in Events :
            ActivationSettled /\ ev[e].pc = "idle" /\ ev'[e].pc # "idle"
                => ev'[e].worker = "new"]_vars

\* C19: the promise given to waitUntil in the activate handler settles only
\* when the enumeration, every deletion and clients.claim() have finished.
C19_SettlesAfterBothFinished ==
    ActivationSettled
        => /\ keysPc = "done"
           /\ \A n \in StoreNames : delPc[n] # "pending"
           /\ claimPc = "done"

\* C20: a deletion of a stale store that fails is not swallowed: the promise
\* given to waitUntil in the activate handler never fulfils and comes to
\* reject, and the store whose deletion failed exists from then on.
C20_DeleteFailurePropagates ==
    /\ [](\A n \in StoreNames :
            delPc[n] = "failed" => actResult # "fulfilled" /\ n \in Range(cacheNames))
    /\ [][\A n \in StoreNames : delPc[n] = "failed" => delPc'[n] = "failed"]_vars
    /\ ((\E n \in StoreNames : delPc[n] = "failed") ~> actResult = "rejected")

\* C20 witness: the deletion of the v7 store failed, the promise rejected and
\* the v7 store is still there, clients.claim() having resolved.
C20_Witness ==
    /\ delPc[OLD_CACHE_NAME] = "failed" /\ actResult = "rejected"
    /\ claimPc = "done"
    /\ OLD_CACHE_NAME \in Range(cacheNames)

\* The positions of the entries of the Cache keyed by the URL.
EntriesOf(url) == {k \in 1..Len(entries) : entries[k].url = url}

\* C14: pre-caching a URL that the store already holds raises no error (an
\* add whose fetch answered with an ok response succeeds whatever the store
\* holds) and leaves exactly one entry for the URL, the response written
\* last; a URL never written has no entry.
C14_PrecacheKeepsOneEntry ==
    /\ [](\A u \in Range(urlsToCache) :
            Cardinality(EntriesOf(u)) = IF putCount[u] = 0 THEN 0 ELSE 1)
    /\ [][\A i \in 1..Len(urlsToCache) :
            addPc[i] = "pending" /\ addPc'[i] # "pending"
                => \/ /\ addPc'[i] = "added"
                      /\ \E k \in 1..Len(entries') :
                            entries'[k] = Entry(urlsToCache[i],
                                                Response("install-v10", installNo, 200))
                   \/ addPc'[i] = "failed" /\ entries' = entries]_vars
    /\ [][\A i \in 1..Len(urlsToCache) :
            PrecacheAdd(i, 200) => addPc'[i] = "added"]_vars

\* C14 witness: a URL was written by two installs and the store holds one
\* entry for it, the response of the second install.
C14_Witness ==
    /\ installNo = 2 /\ putCount[Manifest] = 2
    /\ EntriesOf(Manifest) # {}
    /\ \A k \in EntriesOf(Manifest) : entries[k].resp = Response("install-v10", 2, 200)

\* The positions in shown of the calls of showNotification of push event p.
CallsOf(p) == {k \in 1..Len(shown) : shown[k].ev = p}

\* The positions in displayed of the notifications of push event p.
DisplayedOf(list, p) == {k \in 1..Len(list) : list[k].ev = p}

\* Push event p made one call of showNotification, with the title and the
\* body given.
ShownOnceWith(p, title, body) ==
    /\ Cardinality(CallsOf(p)) = 1
    /\ \A k \in CallsOf(p) : shown[k].title = title /\ shown[k].body = body

\* The notification of push event p goes on display, once, as it was asked
\* for, when its showNotification resolves.
DisplayedOnceWhenShown(p) ==
    push[p].pc = "showing" /\ push'[p].pc = "done"
        => /\ Cardinality(DisplayedOf(displayed', p)) = 1
           /\ \A k \in DisplayedOf(displayed', p), j \in CallsOf(p) :
                   displayed'[k] = shown[j]

\* C15: a push event whose payload is {"notification":{"title":X,"body":Y}},
\* X and Y not empty, makes one call of showNotification, with title X, body
\* Y, icon '/static/images/192.png', badge '/static/images/badge.png' and tag
\* 'simplecrew-sync', and one notification goes on display for it.
C15_TitledPushShownOnce ==
    /\ [](\A p \in Pushes, t \in Titles, b \in Bodies :
            /\ t.s # <<>> /\ b.s # <<>>
            /\ push[p].pc # "idle" /\ push[p].data = Data(NotificationPayload(t, b))
            => /\ ShownOnceWith(p, JsString(t.s), JsString(b.s))
               /\ \A k \in CallsOf(p) :
                    /\ shown[k].icon = <<"static", "images", "192.png">>
                    /\ shown[k].badge = <<"static", "images", "badge.png">>
                    /\ shown[k].tag = "simplecrew-sync")
    /\ [][\A p \in Pushes : DisplayedOnceWhenShown(p)]_vars
    /\ [](\A p \in Pushes : push[p].pc = "idle" => CallsOf(p) = {})

\* C15 witness: the notification of such a push event is on display.
C15_Witness ==
    \E p \in Pushes :
        /\ push[p].pc = "done"
        /\ push[p].data = Data(NotificationPayload(Field(<<"X">>), Field(<<"Y">>)))
        /\ \E k \in DisplayedOf(displayed, p) :
              displayed[k].title = JsString(<<"X">>) /\ displayed[k].body = JsString(<<"Y">>)

\* C16: a push event whose payload is not JSON makes one call of
\* showNotification, with the title 'SimpleCrew' and the text of the payload
\* as the body, and its notification goes on display.
C16_UnparsablePushShowsRawText ==
    /\ [](\A p \in Pushes :
            /\ push[p].pc # "idle"
            /\ push[p].data.present /\ push[p].data.text \in NonJsonTexts
            => ShownOnceWith(p, JsString(<<"SimpleCrew">>), JsString(push[p].data.text)))
    /\ [][\A p \in Pushes :
            push[p].data.present /\ push[p].data.text \in NonJsonTexts
                => DisplayedOnceWhenShown(p)]_vars

\* C16 witness: the notification of a push of plain text is on display.
C16_Witness ==
    \E p \in Pushes :
        /\ push[p].pc = "done" /\ push[p].data = Data(<<"plain", "text">>)
        /\ \E k \in DisplayedOf(displayed, p) :
              displayed[k].body = JsString(<<"plain", "text">>)

\* The payloads of C17 with their two fields: no payload and the JSON texts
\* without a notification object have neither.
FieldsOf(data, title, body) ==
    \/ data = Data(NotificationPayload(title, body))
    \/ /\ title = NoField /\ body = NoField
       /\ \/ data = NoData
          \/ data = Data(JsonObject(<<>>))
          \/ data = Data(JsonObject(<< JsonMember(<<"notification">>, <<"null">>) >>))

\* C17 as stated: an absent field takes its default ('SimpleCrew', 'New
\* notification') and a present field keeps the value of the payload.
C17_AbsentDefaultsPresentKept ==
    \A p \in Pushes, t \in Titles, b \in Bodies :
        push[p].pc # "idle" /\ FieldsOf(push[p].data, t, b)
            => ShownOnceWith(p,
                   IF t.present THEN JsString(t.s) ELSE JsString(<<"SimpleCrew">>),
                   IF b.present THEN JsString(b.s) ELSE JsString(<<"New", "notification">>))

\* C17 amended: a field that is absent or empty takes its default
\* ('SimpleCrew', 'New notification') and a field that is present and not
\* empty keeps the value of the payload, each field on its own; the JSON
\* payload null is handled as a payload that is not JSON (the default title,
\* the text of the payload as the body).
C17_MissingOrEmptyDefaults ==
    /\ \A p \in Pushes, t \in Titles, b \in Bodies :
         push[p].pc # "idle" /\ FieldsOf(push[p].data, t, b)
            => ShownOnceWith(p,
                   IF t.present /\ t.s # <<>>
                   THEN JsString(t.s) ELSE JsString(<<"SimpleCrew">>),
                   IF b.present /\ b.s # <<>>
                   THEN JsString(b.s) ELSE JsString(<<"New", "notification">>))
    /\ \A p \in Pushes :
         push[p].pc # "idle" /\ push[p].data = Data(<<"null">>)
            => ShownOnceWith(p, JsString(<<"SimpleCrew">>), JsString(<<"null">>))

\* C17 witness: a payload with a title and no body, one with a body and an
\* empty title.
C17_Witness ==
    /\ push[1].pc = "done" /\ push[2].pc = "done"
    /\ push[1].data = Data(NotificationPayload(Field(<<"X">>), NoField))
    /\ push[2].data = Data(NotificationPayload(Field(<<>>), Field(<<"Y">>)))
    /\ shown[1].title = JsString(<<"X">>)
    /\ shown[2].body = JsString(<<"Y">>)

\* Every click closes its notification before anything else, and the
\* notification leaves the display.
ClosedFirst ==
    /\ [](clickPc # "idle" => Len(clickLog) >= 1 /\ clickLog[1] = CloseCall)
    /\ [][clickPc # "matching" /\ clickPc' = "matching"
            => Len(displayed') = Len(displayed) - 1 /\ clickLog' = <<CloseCall>>]_vars

\* The windows of the origin that are open.
OfOrigin(list) == {i \in 1..Len(list) : list[i].origin = Origin}

\* C18 as stated: the notification is closed first; then, if a window of the
\* origin is open, one is focused and none is opened, and if none is open a
\* window is opened at '/'.
C18_FocusOrOpen ==
    /\ ClosedFirst
    /\ [][clickPc = "matching" /\ clickPc' = "done"
            => IF OfOrigin(windows) # {}
               THEN \E i \in OfOrigin(windows) :
                       clickLog' = <<CloseCall, FocusCall(windows[i])>>
               ELSE clickLog' = <<CloseCall, OpenWindowCall(<<"">>)>>]_vars

\* C18 amended: the notification is closed first; then, if a window of the
\* origin is open, the first one clients.matchAll lists is focused and none
\* is opened; if none is open, a window is opened at '/' in a browser that
\* defines clients.openWindow, and nothing more is done in one that does not.
C18_FocusOrOpenIfDefined ==
    /\ ClosedFirst
    /\ [][clickPc = "matching" /\ clickPc' = "done"
            => IF OfOrigin(windows) # {}
               THEN clickLog' = <<CloseCall, FocusCall(windows[First(OfOrigin(windows))])>>
               ELSE IF canOpenWindow
               THEN clickLog' = <<CloseCall, OpenWindowCall(<<"">>)>>
               ELSE clickLog' = <<CloseCall>>]_vars

\* C18 witness: with two windows open the first was focused after the close.
C18_Witness ==
    /\ clickPc = "done"
    /\ clickLog = <<CloseCall, FocusCall(Window("tab2", <<"">>))>>
    /\ Len(windows) = 2

\* C21: every cache write of a network-first request that is applied
\* replaces the entry of its request, and no other, by its own response; so
\* of two requests for the same identity that both succeeded and both wrote,
\* the store named CACHE_NAME holds one entry for the identity, the response
\* of one of the two, the one whose write was applied last.
C21_LastAppliedWriteWins ==
    /\ [][\A e \in Events :
            Handled(e, "network-first") /\ ev[e].wpc = "putting" /\ ev'[e].wpc = "done"
                => store'[CACHE_NAME] =
                       [store[CACHE_NAME] EXCEPT ![ev[e].req.path] = ev[e].ans.resp]]_vars
    /\ [](\A d, e \in Events :
            /\ d # e /\ ev[d].req = ev[e].req
            /\ Handled(d, "network-first") /\ Handled(e, "network-first")
            /\ ev[d].wpc = "done" /\ ev[e].wpc = "done"
            => store[CACHE_NAME][ev[e].req.path] \in {ev[d].ans.resp, ev[e].ans.resp})

\* C21 witness: two navigations to '/' both succeeded and both wrote; the
\* store holds the response of the first, whose write was applied after the
\* write of the second.
C21_Witness ==
    /\ \A e \in {1, 2} :
          /\ Handled(e, "network-first") /\ ev[e].req = Req(<<"">>, "navigate", "GET")
          /\ ev[e].wpc = "done"
    /\ store[CACHE_NAME][<<"">>] = Response("fetch", 1, 200)

\* C22: a network-first request whose fetch was answered has the live
\* response as its answer from that step on, whatever becomes of the cache
\* write: no step of the write (the store opened or not, the put applied,
\* failed or never landing) changes the answer or makes it a rejection.
C22_AnswerDoesNotWaitForWrite ==
    /\ [](\A e \in Events :
            Handled(e, "network-first") /\ ev[e].net = "answered"
                => /\ ev[e].pc = "done"
                   /\ ev[e].ans.kind = "network"
                   /\ ev[e].ans.resp = Response("fetch", e, ev[e].ans.resp.status))
    /\ [][\A e \in Events :
            Handled(e, "network-first") /\ ev[e].net = "answered"
                => ev'[e].ans = ev[e].ans /\ ev'[e].pc = ev[e].pc]_vars

\* C22 witness: the page has the live response of a navigation whose cache
\* write failed, and of one whose write has not got past caches.open.
C22_Witness ==
    \E d, e \in Events :
        /\ Handled(d, "network-first") /\ ev[d].req.method = "GET"
        /\ ev[d].ans.kind = "network" /\ ev[d].wpc = "failed"
        /\ Handled(e, "network-first")
        /\ ev[e].ans.kind = "network" /\ ev[e].wpc = "opening"

\* C23: a lookup of the v10 fetch handler (cache-first, or the fallback of
\* network-first) that resolves while the store named CACHE_NAME has no
\* entry for the request does not answer with a snapshot.
C23_LookupsUseCurrentStoreOnly ==
    [][\A e \in Events :
          /\ ev[e].worker = "new" /\ ev[e].pc = "match" /\ ev'[e].pc # "match"
          /\ \/ CACHE_NAME \notin Range(cacheNames)
             \/ store[CACHE_NAME][ev[e].req.path] = NoEntry
          => ev'[e].ans.kind # "cache"]_vars

\* C24: a network-first request answered with a status that is not 2xx has
\* that response as its answer, starts no cache write and no lookup, and
\* changes no store; a cache write is started only for a 2xx response and a
\* lookup only after the fetch failed.
C24_ErrorStatusPassesThrough ==
    /\ [](\A e \in Events :
            Handled(e, "network-first") =>
                /\ ev[e].net = "answered" /\ ~Ok(ev[e].ans.resp.status)
                    => /\ ev[e].ans = NetworkAnswer(Response("fetch", e, 404))
                       /\ ev[e].wpc = "none" /\ ev[e].pc = "done"
                /\ ev[e].wpc # "none"
                    => ev[e].net = "answered" /\ Ok(ev[e].ans.resp.status)
                /\ ev[e].pc = "match" \/ ev[e].ans.kind \in {"cache", "undefined"}
                    => ev[e].net = "failed")
    /\ [][\A e \in Events :
            /\ Handled(e, "network-first") /\ ev[e].pc = "net"
            /\ ev'[e].net = "answered" /\ ~Ok(ev'[e].ans.resp.status)
            => store' = store /\ cacheNames' = cacheNames /\ recent' = recent]_vars

\* C24 witness: a navigation to '/' was answered 404 and passed on while the
\* store named CACHE_NAME holds a snapshot for '/', which stays as it was.
C24_Witness ==
    /\ Handled(2, "network-first") /\ ev[2].req = Req(<<"">>, "navigate", "GET")
    /\ ev[2].ans = NetworkAnswer(Response("fetch", 2, 404))
    /\ store[CACHE_NAME][<<"">>] = Response("fetch", 1, 200)

\* C25: every snapshot the store named CACHE_NAME holds is a 2xx response,
\* and so is every answer that a lookup of either worker served from a store.
C25_CurrentStoreHoldsOnlyOk ==
    /\ \A u \in URLs :
          store[CACHE_NAME][u] # NoEntry
              => store[CACHE_NAME][u].status >= 200 /\ store[CACHE_NAME][u].status <= 299
    /\ \A e \in Events :
          ev[e].ans.kind = "cache"
              => ev[e].ans.resp.status >= 200 /\ ev[e].ans.resp.status <= 299

\* C25 witness: the store holds a snapshot of the install and one of a
\* navigation, after a pre-cache fetch that was answered with an error, one
\* that failed, and a navigation answered 404.
C25_Witness ==
    /\ store[CACHE_NAME][<<"manifest.json">>] = Response("install-v10", 0, 200)
    /\ addState[2] = "failed"
    /\ store[CACHE_NAME][<<"">>] = Response("fetch", 1, 200)
    /\ ev[2].worker = "new" /\ ev[2].ans.kind = "network" /\ ev[2].ans.resp.status = 404

\* C26: once the promise of the activate step of v10 has fulfilled, the
\* list of the cache stores is the one store named CACHE_NAME, in every later
\* state.
C26_OnlyCurrentStoreEverAfter ==
    actResult = "fulfilled" => cacheNames = <<CACHE_NAME>>

\* C27: every fetch event the v10 worker intercepted, under whichever of the
\* three policies, gets a settled answer (a response, a lookup miss or a
\* rejection), and until it has one the handler waits for an operation that
\* was started and can settle.
C27_EveryFetchEventSettles ==
    /\ \A e \in Events :
          ev[e].worker = "new" ~> (ev[e].pc = "done" /\ ev[e].ans.kind # "pending")
    /\ [](\A e \in Events :
            ev[e].worker = "new" /\ ev[e].pc # "done"
                => ev[e].pc \in {"net", "match"} /\ ev[e].ans = Pending)
    /\ [](\A e \in Events : ev[e].worker = "new" /\ ev[e].pc = "done"
            => ev[e].ans.kind \in {"network", "cache", "synth", "undefined", "rejected"})

\* C27 witness: a navigation whose fetch failed and whose fallback lookup
\* missed is settled with undefined, and a cache-first request whose lookup
\* missed and whose fetch failed is settled with a rejection.
C27_Witness ==
    /\ Handled(1, "network-first") /\ ev[1].pc = "done"
    /\ ev[1].net = "failed" /\ ev[1].ans = Undefined
    /\ Handled(2, "cache-first") /\ ev[2].pc = "done"
    /\ ev[2].net = "failed" /\ ev[2].ans = Rejected

\* C28 as stated: at most one interval timer is live, the variable
\* transactionRefreshInterval refers to it or is null when none is live, a
\* timer is live exactly when the last tab switched to is 'activity', and the
\* callback of the timer called reloadTx only with the activity view active.
C28_TimerLiveIffActivityTab ==
    /\ Cardinality(intervals) <= 1
    /\ intervals = IF transactionRefreshInterval = Null THEN {}
                   ELSE {transactionRefreshInterval}
    /\ intervals # {} <=> lastTab = "activity"
    /\ lastStep.by = "tick" /\ "reloadTx" \in lastStep.calls => activeView = "activity"

\* C28 amended: at most one interval timer is live, the variable refers to it
\* or is null when none is live, a timer is live exactly when the last of the
\* calls was switchTab('activity') or startTransactionAutoRefresh, and the
\* callback of the timer called reloadTx only with the activity view active.
C28_TimerLiveIffLastCallStarted ==
    /\ Cardinality(intervals) <= 1
    /\ intervals = IF transactionRefreshInterval = Null THEN {}
                   ELSE {transactionRefreshInterval}
    /\ intervals # {} <=> \/ lastCall = "startTransactionAutoRefresh"
                          \/ lastCall = "switchTab" /\ lastTab = "activity"
    /\ lastCall = "switchTab" => (intervals # {} <=> lastTab = "activity")
    /\ lastStep.by = "tick" /\ "reloadTx" \in lastStep.calls => activeView = "activity"

\* C28 witness: the activity tab was switched to twice and a third timer was
\* started; only the third is live, and its callback ran with the view of
\* another tab active and called nothing.
C28_Witness ==
    /\ intervalsIssued = 3 /\ intervals = {3} /\ transactionRefreshInterval = 3
    /\ lastTab = "goals" /\ activeView = "goals"
    /\ lastCall = "startTransactionAutoRefresh"
    /\ lastStep = [by |-> "tick", calls |-> {}]

\* C29: after handleTouchEnd or handleTouchCancel, and until the next touch
\* or drag event, isDragging is false, draggedItem is null, longPressTimer is
\* null and the body is out of drag mode, whatever timers expire meanwhile.
C29_ResetAfterTouchEnd ==
    lastInput \in {"touchend", "touchcancel"}
        => /\ ~isDragging
           /\ draggedItem = "null"
           /\ longPressTimer = Null
           /\ ~dragModeActive

\* C30: a save that ended without success, of an order that the server has
\* not stored, has called loadGoals(true).
C30_FailedSaveReloads ==
    \A k \in 1..Len(saves) :
        /\ saves[k].pc = "done" /\ saves[k].result # "saved"
        /\ saves[k].ids # serverOrder
        => saves[k].reloaded


====
